---- MODULE Spec2Model ----
(***************************************************************************)
(* Stock Signal Advisor: the /signal endpoint, its two-tier rate limiter,  *)
(* the TTL result cache and the analysis orchestrator.                     *)
(*                                                                         *)
(* Time is the monotonic clock of cachetools, in whole seconds.  Optional  *)
(* values (Python None) are sequences of length at most one: None is <<>>  *)
(* and a present value v is <<v>>.                                         *)
(***************************************************************************)
EXTENDS Integers, Sequences, FiniteSets, TLC

----------------------------------------------------------------------------
(* Program constants *)

UNCACHED_LIMIT_PER_MIN == 5
COUNTER_TTL == 60
COUNTER_MAXSIZE == 10000
CACHE_MAXSIZE == 128
CACHE_TTL_SECONDS == 3600

(* Bounds of the model *)

NumReqs == 2
MaxAdvances == 3
MaxCount == 7
\* scored fields of stock.info populated together
MaxPopulated == 3
\* the same where the fundamentals meet every price history
SamplePopulated == 1

----------------------------------------------------------------------------
(* Optional values *)

None == <<>>
Some(v) == <<v>>
IsNone(o) == Len(o) = 0
Val(o) == o[1]

----------------------------------------------------------------------------
(* str.upper() on the characters tickers are written with *)

UpperMap == [ch \in {"a", "z"} |-> IF ch = "a" THEN "A" ELSE "Z"]

UpperChar(ch) == IF ch \in DOMAIN UpperMap THEN UpperMap[ch] ELSE ch

\* the ticker used as typed
UpperOmitted(s) == s

Upper(s) == [i \in 1..Len(s) |-> UpperChar(s[i])]

----------------------------------------------------------------------------
(* cachetools.TTLCache: a sequence of entries [key, value, expires] kept   *)
(* in least-recently-used order (head = next to be evicted).               *)

HasKey(c, k) == \E i \in 1..Len(c) : c[i].key = k

IndexOf(c, k) == CHOOSE i \in 1..Len(c) : c[i].key = k

RemoveKey(c, k) == SelectSeq(c, LAMBDA e : e.key # k)

\* TTLCache.__contains__: present and not yet expired
LiveKey(c, k, t) == HasKey(c, k) /\ t < c[IndexOf(c, k)].expires

\* TTLCache.expire(time): drop every entry whose expiry time has been reached
Expire(c, t) == SelectSeq(c, LAMBDA e : t < e.expires)

\* Cache.get(key, default): the value of a live entry, else the default
TTLGet(c, k, t, default) ==
    IF LiveKey(c, k, t) THEN c[IndexOf(c, k)].value ELSE default

\* the reordering side of a successful get (__getlink moves the key to the
\* most-recently-used end); a miss leaves the order alone
TTLTouch(c, k, t) ==
    IF LiveKey(c, k, t)
    THEN Append(RemoveKey(c, k), c[IndexOf(c, k)])
    ELSE c

\* TTLCache.__setitem__: expire, evict the least recently used entry when a
\* new key would exceed maxsize, then store with a fresh expiry time
TTLSet(c, k, v, t, ttl, maxsize) ==
    LET c1 == Expire(c, t)
        c2 == IF ~HasKey(c1, k) /\ Len(c1) + 1 > maxsize THEN Tail(c1) ELSE c1
    IN  Append(RemoveKey(c2, k), [key |-> k, value |-> v, expires |-> t + ttl])

----------------------------------------------------------------------------
(* services/cache.py *)

\* a lookup in a plain dict: an entry is returned however old it is
get_cached_stale(c, ticker, t) ==
    IF HasKey(c, Upper(ticker))
    THEN Some(c[IndexOf(c, Upper(ticker))].value)
    ELSE None

\* get_cached(ticker): _cache.get(ticker.upper()), None on a miss
get_cached(c, ticker, t) ==
    IF LiveKey(c, Upper(ticker), t)
    THEN Some(TTLGet(c, Upper(ticker), t, 0))
    ELSE None

\* the cache after get_cached(ticker): a hit makes the key most recently used
cache_after_get(c, ticker, t) == TTLTouch(c, Upper(ticker), t)

\* a store that adds an entry beside the one the key already has
set_cached_beside(c, ticker, result, t) ==
    Append(Expire(c, t),
           [key |-> Upper(ticker), value |-> result, expires |-> t + CACHE_TTL_SECONDS])

\* set_cached(ticker, result): _cache[ticker.upper()] = result
set_cached(c, ticker, result, t) ==
    TTLSet(c, Upper(ticker), result, t, CACHE_TTL_SECONDS, CACHE_MAXSIZE)

\* clear_cache()
clear_cache(c) == <<>>

----------------------------------------------------------------------------
(* services/limiter.py *)

\* line 43: count = _uncached_counter.get(ip, 0) + 1
NextCount(cnt, ip, t) == TTLGet(cnt, ip, t, 0) + 1

\* line 44: _uncached_counter[ip] = count
StoreCount(cnt, ip, count, t) ==
    TTLSet(TTLTouch(cnt, ip, t), ip, count, t, COUNTER_TTL, COUNTER_MAXSIZE)

\* the comparison written with >= : the fifth attempt is turned away
LimitExceededAtLimit(count) == count >= UNCACHED_LIMIT_PER_MIN

\* line 45: if count > _UNCACHED_LIMIT_PER_MIN
LimitExceeded(count) == count > UNCACHED_LIMIT_PER_MIN

\* refund_uncached_rate_limit: give back one slot of a live counter
RefundCount(cnt, ip, t) ==
    LET count == TTLGet(cnt, ip, t, 0)
    IN  IF count > 0 THEN StoreCount(cnt, ip, count - 1, t) ELSE cnt

\* what a client's counter reads now
CounterValue(cnt, ip, t) == TTLGet(cnt, ip, t, 0)

----------------------------------------------------------------------------
(* agents/orchestrator.py: confidence fusion.  Scores are in units of      *)
(* 1/10000, weights in hundredths, so a weighted sum is in units of 1e-6.  *)

WEIGHTS_ALL == [technical |-> 40, fundamental |-> 40, sentiment |-> 20]
\* the two weights of the row exchanged
WEIGHTS_NO_FUNDAMENTAL_SWAPPED == [technical |-> 30, fundamental |-> 0, sentiment |-> 70]

WEIGHTS_NO_FUNDAMENTAL == [technical |-> 70, fundamental |-> 0, sentiment |-> 30]
WEIGHTS_NO_SENTIMENT == [technical |-> 60, fundamental |-> 40, sentiment |-> 0]
WEIGHTS_TECHNICAL_ONLY == [technical |-> 100, fundamental |-> 0, sentiment |-> 0]

Min(a, b) == IF a < b THEN a ELSE b
Max(a, b) == IF a > b THEN a ELSE b

\* round(x, 4) of x = n * 1e-6: to the nearest 1e-4, ties to the even one
Round4(n) ==
    LET q == n \div 100
        rem == n % 100
    IN  IF rem > 50 \/ (rem = 50 /\ q % 2 = 1) THEN q + 1 ELSE q

\* the score of a pillar: absent when the pillar or its score is None
ScoreOf(pillar, field) ==
    IF IsNone(pillar) THEN None ELSE Val(pillar)[field]

compute_weighted_confidence(technical, fundamentals, sentiment) ==
    LET tech_score == ScoreOf(technical, "technical_score")
        fund_score == ScoreOf(fundamentals, "fundamental_score")
        sent_score == ScoreOf(sentiment, "score")
        has_tech == ~IsNone(tech_score)
        has_fund == ~IsNone(fund_score)
        has_sent == ~IsNone(sent_score)
        weights == IF has_tech /\ has_fund /\ has_sent THEN WEIGHTS_ALL
                   ELSE IF has_tech /\ has_fund THEN WEIGHTS_NO_SENTIMENT
                   ELSE IF has_tech /\ has_sent THEN WEIGHTS_NO_FUNDAMENTAL
                   ELSE WEIGHTS_TECHNICAL_ONLY
        score == (IF has_tech THEN weights.technical * Val(tech_score) ELSE 0)
               + (IF has_fund THEN weights.fundamental * Val(fund_score) ELSE 0)
               + (IF has_sent THEN weights.sentiment * Val(sent_score) ELSE 0)
    IN  IF ~has_tech THEN 5000
        ELSE Round4(Max(0, Min(1000000, score)))

----------------------------------------------------------------------------
(* agents/tools/technical.py.  A price history is described by what its    *)
(* rows give: n is the number of rows, rsi the RSI of its closes in        *)
(* hundredths, macd the sign of MACD line minus signal line, above50 and   *)
(* above200 whether the last close is above the averages, ratio the last   *)
(* volume over the mean of the 20 before it in hundredths (None when that  *)
(* mean is zero).  A value is used only when the history is long enough   *)
(* for the indicator.  Scores are in units of 1/10000.                     *)

RSI_PERIOD == 14
MACD_SLOW_PERIOD == 26
MACD_SIGNAL_PERIOD == 9
VOLUME_WINDOW == 20

\* round(n / d): to the nearest integer, ties to the even one
RoundRatio(n, d) ==
    LET q == n \div d
        rem == n % d
    IN  IF 2 * rem > d \/ (2 * rem = d /\ q % 2 = 1) THEN q + 1 ELSE q

calculate_rsi(prices) ==
    IF prices.n < RSI_PERIOD + 1 THEN None ELSE Some(prices.rsi)

interpret_rsi(rsi) ==
    IF rsi < 3000 THEN "oversold" ELSE IF rsi > 7000 THEN "overbought" ELSE "neutral"

\* calculate_sma and lines 165-175: where the last close stands against the
\* average of the last `period` closes, None when there are fewer closes
price_vs_sma(prices, period, above) ==
    IF prices.n < period THEN None
    ELSE Some(IF above THEN "above" ELSE "below")

\* the sign of MACD line minus signal line, None for (None, None, None)
calculate_macd(prices) ==
    IF prices.n < MACD_SLOW_PERIOD + MACD_SIGNAL_PERIOD THEN None
    ELSE Some(prices.macd)

\* a missing MACD read as bearish
interpret_macd_missing_bearish(macd) ==
    IF IsNone(macd) THEN "bearish"
    ELSE IF Val(macd) > 0 THEN "bullish"
    ELSE IF Val(macd) < 0 THEN "bearish"
    ELSE "neutral"

interpret_macd(macd) ==
    IF IsNone(macd) THEN "neutral"
    ELSE IF Val(macd) > 0 THEN "bullish"
    ELSE IF Val(macd) < 0 THEN "bearish"
    ELSE "neutral"

assess_volume_trend(volumes) ==
    IF volumes.n < VOLUME_WINDOW + 1 THEN "neutral"
    ELSE IF IsNone(volumes.ratio) THEN "neutral"
    ELSE IF Val(volumes.ratio) > 150 THEN "high"
    ELSE IF Val(volumes.ratio) < 50 THEN "low"
    ELSE "neutral"

\* the same with the linear scale applied to every RSI
calculate_technical_score_linear_rsi(rsi, macd_signal, price_vs_sma50, price_vs_sma200, volume_trend) ==
    LET rsi_part == IF IsNone(rsi) THEN 0 ELSE 5 * (7000 - Val(rsi))
        macd_part == IF macd_signal = "bullish" THEN 8 * 2500
                     ELSE IF macd_signal = "neutral" THEN 8 * 1250
                     ELSE 0
        sma50_part == IF price_vs_sma50 = Some("above") THEN 8 * 2000 ELSE 0
        sma200_part == IF price_vs_sma200 = Some("above") THEN 8 * 2000 ELSE 0
        volume_part == IF volume_trend = "high" THEN 8 * 1000
                       ELSE IF volume_trend = "neutral" THEN 8 * 500
                       ELSE 0
    IN  RoundRatio(rsi_part + macd_part + sma50_part + sma200_part + volume_part, 8)

\* the sum is kept in units of 1/80000, in which the linear part of the RSI
\* component, 0.25 * (1 - (rsi - 30) / 40), is the integer 5 * (7000 - rsi)
calculate_technical_score(rsi, macd_signal, price_vs_sma50, price_vs_sma200, volume_trend) ==
    LET rsi_part == IF IsNone(rsi) THEN 0
                    ELSE IF Val(rsi) < 3000 THEN 8 * 2500
                    ELSE IF Val(rsi) > 7000 THEN 0
                    ELSE 5 * (7000 - Val(rsi))
        macd_part == IF macd_signal = "bullish" THEN 8 * 2500
                     ELSE IF macd_signal = "neutral" THEN 8 * 1250
                     ELSE 0
        sma50_part == IF price_vs_sma50 = Some("above") THEN 8 * 2000 ELSE 0
        sma200_part == IF price_vs_sma200 = Some("above") THEN 8 * 2000 ELSE 0
        volume_part == IF volume_trend = "high" THEN 8 * 1000
                       ELSE IF volume_trend = "neutral" THEN 8 * 500
                       ELSE 0
    IN  RoundRatio(rsi_part + macd_part + sma50_part + sma200_part + volume_part, 8)

\* lines 158-197 on a history that is not empty; the averages themselves
\* are left out of the record, their comparisons with the last close are in
calculate_technicals(history) ==
    LET rsi == calculate_rsi(history)
        price_vs_sma50 == price_vs_sma(history, 50, history.above50)
        price_vs_sma200 == price_vs_sma(history, 200, history.above200)
        macd_signal == interpret_macd(calculate_macd(history))
        volume_trend == assess_volume_trend(history)
    IN  [rsi |-> rsi,
         rsi_interpretation |-> IF IsNone(rsi) THEN None ELSE Some(interpret_rsi(Val(rsi))),
         price_vs_sma50 |-> price_vs_sma50,
         price_vs_sma200 |-> price_vs_sma200,
         macd_signal |-> macd_signal,
         volume_trend |-> volume_trend,
         technical_score |-> Some(calculate_technical_score(
                                rsi, macd_signal, price_vs_sma50, price_vs_sma200,
                                volume_trend))]

----------------------------------------------------------------------------
(* agents/tools/fundamentals.py.  Metrics are in thousandths (a P/E of 18  *)
(* is 18000, a margin of 11% is 110), scores in units of 1/10000.  Of the  *)
(* fields that are not scored the market capitalisation and the forward    *)
(* P/E are kept.  An insight is its sentence without the number in it.     *)

\* (yfinance_info_key, FundamentalAnalysis_field_name)
YFINANCE_FIELD_MAP ==
    <<<<"trailingPE", "pe_ratio">>, <<"forwardPE", "forward_pe">>,
      <<"pegRatio", "peg_ratio">>, <<"profitMargins", "profit_margin">>,
      <<"returnOnEquity", "return_on_equity">>, <<"revenueGrowth", "revenue_growth">>,
      <<"earningsGrowth", "earnings_growth">>, <<"currentRatio", "current_ratio">>,
      <<"debtToEquity", "debt_to_equity">>, <<"freeCashflow", "free_cash_flow">>,
      <<"marketCap", "market_cap">>>>

InfoKeys == {YFINANCE_FIELD_MAP[i][1] : i \in 1..Len(YFINANCE_FIELD_MAP)}

MetricFields == {YFINANCE_FIELD_MAP[i][2] : i \in 1..Len(YFINANCE_FIELD_MAP)}

\* yfinance reports debtToEquity as a percentage
FIELD_TRANSFORMS(field_name, v) ==
    IF field_name = "debt_to_equity" THEN v \div 100 ELSE v

\* lines 62-69: the record built from stock.info
get_fundamental_metrics(info) ==
    [field_name \in MetricFields \cup {"fundamental_score", "insights"} |->
        IF field_name = "fundamental_score" THEN None
        ELSE IF field_name = "insights" THEN <<>>
        ELSE LET i == CHOOSE j \in 1..Len(YFINANCE_FIELD_MAP) :
                          YFINANCE_FIELD_MAP[j][2] = field_name
                 value == info[YFINANCE_FIELD_MAP[i][1]]
             IN  IF IsNone(value) THEN None
                 ELSE Some(FIELD_TRANSFORMS(field_name, Val(value)))]

\* (raw_score, factor_count, insights) of a field that is not populated, of
\* one that is, and of two groups of fields together
NoFactor == [score |-> 0, factors |-> 0, insights |-> <<>>]

Factor(score, insight) == [score |-> score, factors |-> 1, insights |-> <<insight>>]

Together(a, b) ==
    [score |-> a.score + b.score, factors |-> a.factors + b.factors,
     insights |-> a.insights \o b.insights]

score_valuation(metrics) ==
    LET pe == metrics.pe_ratio
        peg == metrics.peg_ratio
    IN  Together(
          IF IsNone(pe) THEN NoFactor
          ELSE IF Val(pe) < 15000 THEN Factor(10000, "P/E ratio suggests undervaluation")
          ELSE IF Val(pe) > 30000 THEN Factor(0, "P/E ratio suggests overvaluation")
          ELSE Factor(10000 - ((Val(pe) - 15000) * 10000) \div 15000,
                      "P/E ratio is moderate"),
          IF IsNone(peg) THEN NoFactor
          ELSE IF Val(peg) < 1000
               THEN Factor(10000, "PEG ratio indicates growth at a reasonable price")
          ELSE IF Val(peg) > 2000
               THEN Factor(0, "PEG ratio suggests overvaluation relative to growth")
          ELSE Factor(10000 - (Val(peg) - 1000) * 10, "PEG ratio is moderate"))

score_profitability(metrics) ==
    LET margin == metrics.profit_margin
        roe == metrics.return_on_equity
    IN  Together(
          IF IsNone(margin) THEN NoFactor
          ELSE IF Val(margin) > 200 THEN Factor(10000, "Profit margin is strong")
          ELSE IF Val(margin) < 50 THEN Factor(0, "Profit margin is weak")
          ELSE Factor(((Val(margin) - 50) * 10000) \div 150, "Profit margin is moderate"),
          IF IsNone(roe) THEN NoFactor
          ELSE IF Val(roe) > 150 THEN Factor(10000, "ROE indicates efficient use of equity")
          ELSE IF Val(roe) < 50 THEN Factor(0, "ROE is below average")
          ELSE Factor((Val(roe) - 50) * 100, "ROE is moderate"))

score_growth(metrics) ==
    LET revenue == metrics.revenue_growth
        earnings == metrics.earnings_growth
    IN  Together(
          IF IsNone(revenue) THEN NoFactor
          ELSE IF Val(revenue) > 150 THEN Factor(10000, "Revenue growth is strong")
          ELSE IF Val(revenue) < 0 THEN Factor(0, "Revenue declining")
          ELSE Factor((Val(revenue) * 10000) \div 150, "Revenue growth is moderate"),
          IF IsNone(earnings) THEN NoFactor
          ELSE IF Val(earnings) > 200 THEN Factor(10000, "Earnings growth is strong")
          ELSE IF Val(earnings) < 0 THEN Factor(0, "Earnings declining")
          ELSE Factor(Val(earnings) * 50, "Earnings growth is moderate"))

score_financial_health(metrics) ==
    LET debt == metrics.debt_to_equity
        current == metrics.current_ratio
        cash == metrics.free_cash_flow
    IN  Together(
          Together(
            IF IsNone(debt) THEN NoFactor
            ELSE IF Val(debt) < 500
                 THEN Factor(10000, "Low debt-to-equity indicates conservative financing")
            ELSE IF Val(debt) > 2000
                 THEN Factor(0, "High debt-to-equity signals leverage risk")
            ELSE Factor(10000 - ((Val(debt) - 500) * 10000) \div 1500,
                        "Debt-to-equity is moderate"),
            IF IsNone(current) THEN NoFactor
            ELSE IF Val(current) > 1500
                 THEN Factor(10000, "Current ratio shows strong liquidity")
            ELSE IF Val(current) < 1000
                 THEN Factor(0, "Current ratio indicates liquidity concern")
            ELSE Factor((Val(current) - 1000) * 20, "Current ratio is adequate")),
          IF IsNone(cash) THEN NoFactor
          ELSE IF Val(cash) > 0
               THEN Factor(10000, "Positive free cash flow supports financial flexibility")
          ELSE Factor(0, "Negative free cash flow may limit financial flexibility"))

\* lines 222-227
Categories(metrics) ==
    <<score_valuation(metrics), score_profitability(metrics),
      score_growth(metrics), score_financial_health(metrics)>>

\* a share that takes every category to have two factors
CategoryShareOfTwo(cat) ==
    IF cat.factors > 0 THEN cat.score * 3 ELSE 0

\* 0.25 * (cat_score / cat_factors) in units of 1/240000; a category has one
\* to three factors
CategoryShare(cat) ==
    IF cat.factors > 0 THEN cat.score * (6 \div cat.factors) ELSE 0

\* the same without the neutral score of lines 236-238
interpret_fundamentals_no_neutral(metrics) ==
    LET categories == Categories(metrics)
        total_score == CategoryShare(categories[1]) + CategoryShare(categories[2])
                     + CategoryShare(categories[3]) + CategoryShare(categories[4])
    IN  [score |-> RoundRatio(total_score, 24),
         insights |-> categories[1].insights \o categories[2].insights
                        \o categories[3].insights \o categories[4].insights]

interpret_fundamentals(metrics) ==
    LET categories == Categories(metrics)
        total_score == CategoryShare(categories[1]) + CategoryShare(categories[2])
                     + CategoryShare(categories[3]) + CategoryShare(categories[4])
        total_factors == categories[1].factors + categories[2].factors
                       + categories[3].factors + categories[4].factors
    IN  [score |-> IF total_factors = 0 THEN 5000 ELSE RoundRatio(total_score, 24),
         insights |-> categories[1].insights \o categories[2].insights
                        \o categories[3].insights \o categories[4].insights]

\* lines 249-255 once stock.info has a market capitalisation
calculate_fundamentals(info) ==
    LET metrics == get_fundamental_metrics(info)
        interpretation == interpret_fundamentals(metrics)
    IN  [metrics EXCEPT !.fundamental_score = Some(interpretation.score),
                        !.insights = interpretation.insights]

----------------------------------------------------------------------------
(* Inputs: clients, tickers as typed, inclusion flags, collaborator results *)

Reqs == 1..NumReqs

Clients == {"10.0.0.1", "10.0.0.2"}

RawTickers == {<<"a">>, <<"A">>, <<"z">>}

\* the tickers asked for at the endpoint: one symbol in two spellings
EndpointTickers == {<<"a">>, <<"A">>}

AllFlags == [technicals : BOOLEAN, fundamentals : BOOLEAN, news : BOOLEAN]

DefaultFlags == [technicals |-> TRUE, fundamentals |-> TRUE, news |-> TRUE]

\* seconds the clock may jump by between two steps
Delays == {COUNTER_TTL, CACHE_TTL_SECONDS - COUNTER_TTL}

\* the same around the rate limiter's minute
LimitDelays == {COUNTER_TTL - 1, COUNTER_TTL}

TaskKeys == <<"price", "company_name", "technicals", "fundamentals", "news">>

\* what a collaborator call ends in: it returns a value (possibly None) or
\* raises ValueError, LLMRateLimitError or another exception
Return(v) == [kind |-> "return", value |-> v, error |-> ""]
Raise(e) == [kind |-> "raise", value |-> None, error |-> e]

Headline(title) == [title |-> title, sentiment |-> None]

SamplePrice == [current |-> 150]
SampleTechnicals == [technical_score |-> Some(7000)]
SampleFundamentals == [fundamental_score |-> Some(6000)]
SampleSentiment == [overall |-> "mixed", score |-> Some(5500)]
SampleHeadlines == <<Headline("Good news"), Headline("Bad news")>>
SampleAgentResult ==
    [signal |-> "BUY", confidence |-> 8500, explanation |-> "Strong outlook."]

----------------------------------------------------------------------------
(* State *)

Keys == {Upper(t) : t \in RawTickers}

\* response objects live on a heap: a cache entry and a returned response
\* may be the same object, and a response refers to its metadata object.
\* One object per cached key and one for the response being sent are alive.
ObjIds == 1..(Cardinality(Keys) + 1)

VARIABLES
    now,        \* the monotonic clock, in seconds
    advances,   \* how many times the clock has moved
    cache,      \* services/cache.py _cache
    counter,    \* services/limiter.py _uncached_counter
    lock,       \* services/limiter.py _counter_lock: the holder, 0 when free
    heap,       \* [objs, metas]: AnalyzeResponse and AnalysisMetadata objects
    req,        \* per request slot: the handler's position and local variables
    ev,         \* what the last step did: a verdict of the limiter or a response
    g           \* history variables the properties are stated with

vars == <<now, advances, cache, counter, lock, heap, req, ev, g>>

NoResults ==
    [price |-> None, company_name |-> None, technicals |-> None,
     fundamentals |-> None, news |-> None]

NoTask == [st |-> "absent", out |-> Return(None)]

NoTasks == [k \in {TaskKeys[i] : i \in 1..Len(TaskKeys)} |-> NoTask]

IdleReq ==
    [pc |-> "idle", ip |-> "", raw |-> <<>>, flags |-> DefaultFlags,
     ticker |-> <<>>, count |-> 0, tasks |-> NoTasks, next_await |-> 0,
     results |-> NoResults, headlines |-> None, sentiment |-> None,
     agent_result |-> None, status |-> 0, detail |-> "", resp |-> 0,
     \* history: what happened to this request
     hit |-> FALSE, fresh |-> FALSE, ordinal |-> 0, attempt_at |-> None,
     agent_calls |-> 0, sentiment_calls |-> 0, agent_error |-> "",
     sentiment_error |-> "", handles |-> 0, primes |-> 0]

NoEvent == [kind |-> "none", phase |-> "", rq |-> IdleReq]

\* the request arrived and was let through by the rate limiter
Admitted(rq) == [kind |-> "admitted", phase |-> "arrival", rq |-> rq]

\* the response the endpoint sent for the request, on its arrival or at the
\* end of the pipeline
Response(rq, phase) == [kind |-> "response", phase |-> phase, rq |-> rq]

EmptyHeap ==
    [objs |-> [i \in ObjIds |-> None], metas |-> [i \in ObjIds |-> None]]

NoWindow == [start |-> 0, n |-> 0, clean |-> FALSE, net |-> 0]

InitGhost ==
    [store |-> [k \in Keys |-> None],
     evicted |-> {},
     attempts |-> [c \in Clients |-> <<>>],
     touch |-> [c \in Clients |-> None],
     win |-> [c \in Clients |-> NoWindow],
     \* of the threads inside check_uncached_rate_limit: the counts read so
     \* far, whether one was read twice, and how many calls returned normally
     seen |-> [c \in Clients |-> {}],
     dup |-> FALSE,
     passed |-> [c \in Clients |-> 0],
     \* of direct calls of the cache: the last result stored under each
     \* ticker, whatever its spelling, since the cache was cleared
     held |-> {}]

Init ==
    /\ now = 0
    /\ advances = 0
    /\ cache = <<>>
    /\ counter = <<>>
    /\ lock = 0
    /\ heap = EmptyHeap
    /\ req = [r \in Reqs |-> IdleReq]
    /\ ev = NoEvent
    /\ g = InitGhost

----------------------------------------------------------------------------
(* Heap operations *)

\* the lowest free object id: a new response and its metadata share it
Alloc(h) == CHOOSE i \in ObjIds :
    /\ IsNone(h.objs[i]) /\ IsNone(h.metas[i])
    /\ \A j \in ObjIds : j < i => ~(IsNone(h.objs[j]) /\ IsNone(h.metas[j]))

\* cached.model_copy(): a new response that shares the metadata object
model_copy_shallow(h, id, new) ==
    [objs |-> [h.objs EXCEPT ![new] = h.objs[id]], metas |-> h.metas]

\* cached.model_copy(deep=True): a new response with its own metadata object
model_copy_deep(h, id, new) ==
    [objs |-> [h.objs EXCEPT ![new] = Some([Val(h.objs[id]) EXCEPT !.metadata = new])],
     metas |-> [h.metas EXCEPT ![new] = h.metas[Val(h.objs[id]).metadata]]]

\* result.metadata.cached = True
set_cached_flag(h, id) ==
    [h EXCEPT !.metas[Val(h.objs[id]).metadata] = Some([Val(@) EXCEPT !.cached = TRUE])]

\* a new AnalyzeResponse with its AnalysisMetadata(cached=False)
new_response(h, new, fields) ==
    [objs |-> [h.objs EXCEPT ![new] = Some([fields EXCEPT !.metadata = new])],
     metas |-> [h.metas EXCEPT ![new] = Some([cached |-> FALSE])]]

\* garbage collection: objects no cache entry and no request refers to
Referenced(c, e) ==
    {c[i].value : i \in 1..Len(c)} \cup {e.rq.resp}

Collect(h, c, e) ==
    LET liveObjs == Referenced(c, e) \cap ObjIds
        liveMetas == {Val(h.objs[i]).metadata : i \in {j \in liveObjs : ~IsNone(h.objs[j])}}
    IN  [objs |-> [i \in ObjIds |-> IF i \in liveObjs THEN h.objs[i] ELSE None],
         metas |-> [i \in ObjIds |-> IF i \in liveMetas THEN h.metas[i] ELSE None]]

\* the flag a response object carries
CachedFlag(h, id) == Val(h.metas[Val(h.objs[id]).metadata]).cached

----------------------------------------------------------------------------
(* History bookkeeping (no effect on the program state) *)

RemoveOne(q, x) ==
    IF \E i \in 1..Len(q) : q[i] = x
    THEN LET i == CHOOSE j \in 1..Len(q) : q[j] = x /\ \A m \in 1..(j - 1) : q[m] # x
         IN  SubSeq(q, 1, i - 1) \o SubSeq(q, i + 1, Len(q))
    ELSE q

\* a window opens with an attempt of a client that has neither attempted nor
\* been refunded for a full minute: n counts its attempts while no refund has
\* touched it, net its attempts less the refunds
WindowAfterAttempt(gg, ip, t) ==
    LET opens == IsNone(gg.touch[ip]) \/ Val(gg.touch[ip]) + COUNTER_TTL <= t
        w == gg.win[ip]
    IN  IF opens THEN [start |-> t, n |-> 1, clean |-> TRUE, net |-> 1]
        ELSE [w EXCEPT !.n = IF w.clean THEN @ + 1 ELSE 0, !.net = @ + 1]

\* which attempt of a clean window this is, counted only during the minute
\* that follows the window's first attempt; 0 otherwise
Ordinal(gg, ip, t) ==
    IF gg.win[ip].clean /\ t < gg.win[ip].start + COUNTER_TTL
    THEN gg.win[ip].n ELSE 0

\* the client's attempts less its refunds since it was last quiet for a minute
NetValue(gg, ip, t) ==
    IF IsNone(gg.touch[ip]) \/ Val(gg.touch[ip]) + COUNTER_TTL <= t
    THEN 0 ELSE gg.win[ip].net

GhostAttempt(gg, ip, t) ==
    [gg EXCEPT !.attempts[ip] = Append(@, t),
               !.touch[ip] = Some(t),
               !.win[ip] = WindowAfterAttempt(gg, ip, t)]

\* a NotFound request gives its slot back
GhostRefund(gg, ip, at, t) ==
    LET quiet == IsNone(gg.touch[ip]) \/ Val(gg.touch[ip]) + COUNTER_TTL <= t
    IN  [gg EXCEPT !.attempts[ip] = IF IsNone(at) THEN @ ELSE RemoveOne(@, Val(at)),
                   !.touch[ip] = IF quiet THEN @ ELSE Some(t),
                   !.win[ip] = IF quiet THEN NoWindow
                               ELSE [@ EXCEPT !.n = 0, !.clean = FALSE,
                                              !.net = Max(0, @ - 1)]]

\* set_cached's history: when the key was stored, and which keys it pushed out
GhostStore(gg, c, c2, key, t) ==
    LET before == {e.key : e \in {Expire(c, t)[i] : i \in 1..Len(Expire(c, t))}}
        after == {c2[i].key : i \in 1..Len(c2)}
    IN  [gg EXCEPT !.store[key] = Some(t),
                   !.evicted = (@ \cup (before \ after)) \ {key}]

\* a successful analysis of the ticker was stored less than the TTL ago and
\* has not been evicted since
GhostFresh(gg, key, t) ==
    /\ ~IsNone(gg.store[key])
    /\ t < Val(gg.store[key]) + CACHE_TTL_SECONDS
    /\ key \notin gg.evicted

----------------------------------------------------------------------------
(* api/routes/analysis.py and agents/orchestrator.py, one action per run of *)
(* the handler between two suspension points of the event loop              *)

\* the request is answered; the coordinator's bookkeeping is dropped
Finished(rq, status, detail, resp) ==
    [rq EXCEPT !.pc = "done", !.status = status, !.detail = detail, !.resp = resp,
               !.attempt_at = None]

\* lines 23-26 of the route, 84-87 of the orchestrator: answer from the cache
ServeCached(r, rq, id, c, phase) ==
    LET h0 == Collect(heap, c, NoEvent)
        new == Alloc(h0)
        h == set_cached_flag(model_copy_deep(h0, id, new), new)
    IN  /\ req' = [req EXCEPT ![r] = IdleReq]
        /\ ev' = Response(Finished([rq EXCEPT !.hit = TRUE], 200, "", new), phase)
        /\ cache' = c
        /\ heap' = Collect(h, c, ev')

\* the route's except clauses (lines 32-47): the status an error maps to
ErrorStatus(e) ==
    IF e = "ValueError" THEN 404
    ELSE IF e = "LLMRateLimitError" THEN 429
    ELSE 502

\* an except clause for ValueError that keeps the slot
CounterAfterErrorNoRefund(cnt, e, ip, t) == cnt

\* the counter after the route handled error e for a request of ip
CounterAfterError(cnt, e, ip, t) ==
    IF e = "ValueError" THEN RefundCount(cnt, ip, t) ELSE cnt

RouteExcept(r, rq, e) ==
    /\ req' = [req EXCEPT ![r] = IdleReq]
    /\ ev' = Response(Finished(rq, ErrorStatus(e), e, 0), "pipeline")
    /\ counter' = CounterAfterError(counter, e, rq.ip, now)
    /\ g' = IF e = "ValueError"
            THEN GhostRefund(g, rq.ip, rq.attempt_at, now) ELSE g

\* the tasks lines 98-118 create for a request with these flags
Started(flags) ==
    {"price", "company_name"}
        \cup (IF flags.technicals THEN {"technicals"} ELSE {})
        \cup (IF flags.fundamentals THEN {"fundamentals"} ELSE {})
        \cup (IF flags.news THEN {"news"} ELSE {})

\* lines 123-131: the value of an awaited task, None when it raised
AwaitResult(o) == IF o.kind = "return" THEN o.value ELSE None

\* `if headlines:` -- a list that is present and not empty
Truthy(headlines) == ~IsNone(headlines) /\ Len(Val(headlines)) > 0

\* an exception leaves analyze()
Raised(rq, e) == [rq EXCEPT !.pc = "raised", !.detail = e]

\* the fan-out begun as soon as the handle exists, beside the priming read
get_ticker_done_unprimed(rq, o) ==
    IF o.kind = "return"
    THEN [rq EXCEPT !.pc = "info", !.handles = @ + 1,
                    !.tasks = [k \in DOMAIN NoTasks |->
                                  IF k \in Started(rq.flags)
                                  THEN [st |-> "running", out |-> Return(None)]
                                  ELSE NoTask]]
    ELSE Raised(rq, o.error)

\* line 92: await asyncio.to_thread(get_ticker, ticker)
get_ticker_done(rq, o) ==
    IF o.kind = "return" THEN [rq EXCEPT !.pc = "info", !.handles = @ + 1]
    ELSE Raised(rq, o.error)

\* line 93: await asyncio.to_thread(lambda: stock.info), then lines 96-118
\* create the tasks and line 124 waits for the first of them
info_done(rq, o) ==
    IF o.kind = "return"
    THEN [rq EXCEPT !.pc = "gather", !.next_await = 1, !.primes = @ + 1,
                    !.tasks = [k \in DOMAIN NoTasks |->
                                  IF k \in Started(rq.flags)
                                  THEN [st |-> "running", out |-> Return(None)]
                                  ELSE NoTask]]
    ELSE Raised(rq, o.error)

\* the same without the check of lines 139-142
after_gather_unchecked(rq) ==
    LET headlines == rq.results.news
        rq1 == [rq EXCEPT !.headlines = headlines]
    IN  IF Truthy(headlines)
        THEN [rq1 EXCEPT !.pc = "sentiment", !.sentiment_calls = @ + 1]
        ELSE [rq1 EXCEPT !.pc = "agent", !.agent_calls = @ + 1]

\* lines 133-148 once every task has been awaited: no price is fatal, else
\* sentiment analysis (when there are headlines) or the agent is called
after_gather(rq) ==
    LET headlines == rq.results.news
        rq1 == [rq EXCEPT !.headlines = headlines]
    IN  IF IsNone(rq.results.price) THEN Raised(rq1, "ValueError")
        ELSE IF Truthy(headlines)
        THEN [rq1 EXCEPT !.pc = "sentiment", !.sentiment_calls = @ + 1]
        ELSE [rq1 EXCEPT !.pc = "agent", !.agent_calls = @ + 1]

\* a loop over every key, whether its task was created or not
NextAwaitEveryKey(tasks, i) == i

\* the position in tasks.items() of the first task at or after position i
RECURSIVE NextAwait(_, _)
NextAwait(tasks, i) ==
    IF i > Len(TaskKeys) \/ tasks[TaskKeys[i]].st # "absent" THEN i
    ELSE NextAwait(tasks, i + 1)

\* an await that lets the task's exception through
await_task_uncaught(rq, k) ==
    IF rq.tasks[k].out.kind = "return"
    THEN [rq EXCEPT !.results[k] = rq.tasks[k].out.value,
                    !.next_await = NextAwait(rq.tasks, @ + 1)]
    ELSE Raised(rq, rq.tasks[k].out.error)

\* lines 122-131: one turn of the loop, for the finished task under key k
await_task(rq, k) ==
    [rq EXCEPT !.results[k] = AwaitResult(rq.tasks[k].out),
               !.next_await = NextAwait(rq.tasks, @ + 1)]

\* a loop that gives up as soon as the price task turns out to have failed
await_step_fail_fast(rq) ==
    LET rq1 == await_task(rq, TaskKeys[rq.next_await])
    IN  IF IsNone(rq1.results.price) THEN Raised(rq1, "ValueError")
        ELSE IF rq1.pc = "gather" /\ rq1.next_await > Len(TaskKeys)
        THEN after_gather(rq1) ELSE rq1

\* one turn of the loop and, after the last one, lines 133-154
await_step(rq) ==
    LET rq1 == await_task(rq, TaskKeys[rq.next_await])
    IN  IF rq1.pc = "gather" /\ rq1.next_await > Len(TaskKeys)
        THEN after_gather(rq1) ELSE rq1

RECURSIVE await_loop(_)
await_loop(rq) ==
    IF rq.pc = "gather" /\ rq.next_await <= Len(TaskKeys)
    THEN await_loop(await_step(rq)) ELSE rq

\* lines 120-154 in one go: every started task ends as outs says and is
\* awaited in turn
await_all(rq, outs) ==
    await_loop([rq EXCEPT !.tasks = [k \in DOMAIN NoTasks |->
                                        IF @[k].st = "running"
                                        THEN [st |-> "finished", out |-> outs[k]]
                                        ELSE @[k]]])

\* an except clause that lets the classifier's rate-limit error through, as
\* the agent's does
sentiment_done_rate_limit_escapes(rq, o) ==
    IF o.kind = "return"
    THEN [rq EXCEPT !.pc = "agent", !.agent_calls = @ + 1,
                    !.sentiment = Some(o.value.analysis),
                    !.headlines = Some(o.value.headlines)]
    ELSE IF o.error = "LLMRateLimitError"
    THEN [Raised(rq, o.error) EXCEPT !.sentiment_error = o.error]
    ELSE [rq EXCEPT !.pc = "agent", !.agent_calls = @ + 1,
                    !.sentiment_error = o.error]

\* lines 145-150: await analyze_sentiment(headlines); a failure leaves the
\* sentiment absent and the headlines as fetched; then line 154 calls the agent
sentiment_done(rq, o) ==
    IF o.kind = "return"
    THEN [rq EXCEPT !.pc = "agent", !.agent_calls = @ + 1,
                    !.sentiment = Some(o.value.analysis),
                    !.headlines = Some(o.value.headlines)]
    ELSE [rq EXCEPT !.pc = "agent", !.agent_calls = @ + 1,
                    !.sentiment_error = o.error]

\* AgentResult() with every default, the explanation included
FallbackAgentResultBlank ==
    [signal |-> "HOLD", confidence |-> 5000, explanation |-> ""]

\* lines 159-161: AgentResult(explanation=...) with the defaults HOLD and 0.5
FallbackAgentResult ==
    [signal |-> "HOLD", confidence |-> 5000,
     explanation |-> "Signal analysis temporarily unavailable. Technical and fundamental data are shown below."]

\* an except clause that treats every error of the agent alike
agent_done_swallowed(rq, o) ==
    IF o.kind = "return"
    THEN [rq EXCEPT !.pc = "assemble", !.agent_result = Some(o.value)]
    ELSE [rq EXCEPT !.pc = "assemble", !.agent_result = Some(FallbackAgentResult),
                    !.agent_error = o.error]

\* lines 153-161: await run_agent(ticker); agent_error keeps what it raised
agent_done(rq, o) ==
    IF o.kind = "return"
    THEN [rq EXCEPT !.pc = "assemble", !.agent_result = Some(o.value)]
    ELSE IF o.error = "LLMRateLimitError"
    THEN [Raised(rq, o.error) EXCEPT !.agent_error = o.error]
    ELSE [rq EXCEPT !.pc = "assemble", !.agent_result = Some(FallbackAgentResult),
                    !.agent_error = o.error]

\* a response that passes the agent's own confidence on
AssembleAgentConfidence(rq) ==
    [ticker |-> rq.ticker,
     company_name |-> rq.results.company_name,
     signal |-> Val(rq.agent_result).signal,
     confidence |-> Val(rq.agent_result).confidence,
     explanation |-> Val(rq.agent_result).explanation,
     technical |-> rq.results.technicals,
     fundamentals |-> rq.results.fundamentals,
     sentiment |-> rq.sentiment,
     price_data |-> rq.results.price,
     sources |-> IF Truthy(rq.headlines) THEN Val(rq.headlines) ELSE <<>>,
     metadata |-> 0]

\* lines 164-187: the fields of the response
Assemble(rq) ==
    [ticker |-> rq.ticker,
     company_name |-> rq.results.company_name,
     signal |-> Val(rq.agent_result).signal,
     confidence |-> compute_weighted_confidence(
                        rq.results.technicals, rq.results.fundamentals, rq.sentiment),
     explanation |-> Val(rq.agent_result).explanation,
     technical |-> rq.results.technicals,
     fundamentals |-> rq.results.fundamentals,
     sentiment |-> rq.sentiment,
     price_data |-> rq.results.price,
     sources |-> IF Truthy(rq.headlines) THEN Val(rq.headlines) ELSE <<>>,
     metadata |-> 0]

\* the same with a response built from the fallback left out of the cache
AssembleAndCacheUnlessFallback(r, rq) ==
    LET h0 == Collect(heap, cache, NoEvent)
        new == Alloc(h0)
        h == new_response(h0, new, Assemble(rq))
        c == IF rq.agent_error = "" THEN set_cached(cache, rq.ticker, new, now) ELSE cache
    IN  /\ req' = [req EXCEPT ![r] = IdleReq]
        /\ ev' = Response(Finished(rq, 200, "", new), "pipeline")
        /\ cache' = c
        /\ heap' = Collect(h, c, ev')
        /\ g' = IF rq.agent_error = "" THEN GhostStore(g, cache, c, Upper(rq.raw), now)
                ELSE g
        /\ UNCHANGED counter

\* lines 163-192: fuse, assemble, store in the cache and return the response
AssembleAndCache(r, rq) ==
    LET h0 == Collect(heap, cache, NoEvent)
        new == Alloc(h0)
        h == new_response(h0, new, Assemble(rq))
        c == set_cached(cache, rq.ticker, new, now)
    IN  /\ req' = [req EXCEPT ![r] = IdleReq]
        /\ ev' = Response(Finished(rq, 200, "", new), "pipeline")
        /\ cache' = c
        /\ heap' = Collect(h, c, ev')
        /\ g' = GhostStore(g, cache, c, Upper(rq.raw), now)
        /\ UNCHANGED counter

\* what a step of analyze() does to the shared state: an escaping exception
\* reaches the route's except clauses, a finished analysis is cached
Settle(r, rq) ==
    IF rq.pc = "raised"
    THEN RouteExcept(r, rq, rq.detail) /\ cache' = cache /\ heap' = Collect(heap, cache, ev')
    ELSE IF rq.pc = "assemble"
    THEN AssembleAndCache(r, rq)
    ELSE /\ req' = [req EXCEPT ![r] = rq]
         /\ ev' = NoEvent
         /\ heap' = Collect(heap, cache, ev')
         /\ UNCHANGED <<cache, counter, g>>

\* a route that leaves the cache to the orchestrator
RouteCacheLookupSkipped(c, raw, t) == None

\* a route that looks the ticker up as it was typed
RouteCacheLookupAsTyped(c, raw, t) ==
    IF LiveKey(c, raw, t) THEN Some(TTLGet(c, raw, t, 0)) ELSE None

\* line 22 of the route: cached = get_cached(body.ticker.upper())
RouteCacheLookup(c, raw, t) == get_cached(c, Upper(raw), t)

\* POST /signal up to the first suspension: the route's cache check, the
\* rate-limit check and the orchestrator's own cache check
analyze_stock(r, ip, raw, flags) ==
    /\ req[r].pc = "idle"
    /\ \A q \in Reqs : q < r => req[q].pc # "idle"
    /\ CounterValue(counter, ip, now) < MaxCount
    /\ UNCHANGED <<now, advances, lock>>
    /\ LET rq0 == [IdleReq EXCEPT !.ip = ip, !.raw = raw, !.flags = flags,
                                  !.fresh = GhostFresh(g, Upper(raw), now)]
           cached == RouteCacheLookup(cache, raw, now)
           cache1 == IF IsNone(cached) THEN cache
                     ELSE cache_after_get(cache, Upper(raw), now)
           count == NextCount(counter, ip, now)
           g1 == GhostAttempt(g, ip, now)
           rq1 == [rq0 EXCEPT !.count = count, !.attempt_at = Some(now),
                              !.ordinal = Ordinal(g1, ip, now)]
           ticker == Upper(raw)
           cached2 == get_cached(cache1, ticker, now)
           cache2 == cache_after_get(cache1, ticker, now)
       IN  IF ~IsNone(cached)
           THEN /\ ServeCached(r, rq0, Val(cached), cache1, "arrival")
                /\ UNCHANGED <<counter, g>>
           ELSE /\ counter' = StoreCount(counter, ip, count, now)
                /\ g' = g1
                /\ IF LimitExceeded(count)
                   THEN /\ req' = [req EXCEPT ![r] = IdleReq]
                        /\ ev' = Response(Finished(rq1, 429, "rate limit", 0), "arrival")
                        /\ cache' = cache1
                        /\ heap' = Collect(heap, cache1, ev')
                   ELSE IF ~IsNone(cached2)
                   THEN ServeCached(r, rq1, Val(cached2), cache2, "arrival")
                   ELSE /\ req' = [req EXCEPT ![r] =
                                     [rq0 EXCEPT !.pc = "get_ticker", !.ticker = ticker,
                                                 !.fresh = FALSE,
                                                 !.attempt_at = Some(now)]]
                        /\ ev' = Admitted([rq1 EXCEPT !.ticker = ticker])
                        /\ cache' = cache2
                        /\ heap' = Collect(heap, cache2, ev')

GetTickerDone(r, o) ==
    /\ req[r].pc = "get_ticker"
    /\ Settle(r, get_ticker_done(req[r], o))
    /\ UNCHANGED <<now, advances, lock>>

InfoDone(r, o) ==
    /\ req[r].pc = "info"
    /\ Settle(r, info_done(req[r], o))
    /\ UNCHANGED <<now, advances, lock>>

SentimentDone(r, o) ==
    /\ req[r].pc = "sentiment"
    /\ Settle(r, sentiment_done(req[r], o))
    /\ UNCHANGED <<now, advances, lock>>

AgentDone(r, o) ==
    /\ req[r].pc = "agent"
    /\ Settle(r, agent_done(req[r], o))
    /\ UNCHANGED <<now, advances, lock>>

\* analyze_sentiment returns the analysis and labelled copies of the
\* headlines, or raises: the classifier's rate-limit error or another one
Labelled(headlines, label) ==
    [i \in 1..Len(headlines) |-> [headlines[i] EXCEPT !.sentiment = Some(label)]]

SentimentOutcome(headlines, kind) ==
    IF kind = "return" /\ Truthy(headlines)
    THEN Return([analysis |-> SampleSentiment,
                 headlines |-> Labelled(Val(headlines), "positive")])
    ELSE IF kind = "rate_limit" THEN Raise("LLMRateLimitError")
    ELSE Raise("Exception")

\* the whole of analyze() after its cache check, lines 89-192, for a request
\* whose collaborators end as `run` says.  Between its suspension points the
\* pipeline reads and writes nothing that requests share, so the endpoint is
\* explored with the pipeline as one step.
run_pipeline(rq, run) ==
    LET rq1 == get_ticker_done(rq, run.get_ticker)
        rq2 == IF rq1.pc = "info" THEN info_done(rq1, run.info) ELSE rq1
        rq3 == IF rq2.pc = "gather" THEN await_all(rq2, run.tasks) ELSE rq2
        rq4 == IF rq3.pc = "sentiment"
               THEN sentiment_done(rq3, SentimentOutcome(rq3.headlines, run.sentiment))
               ELSE rq3
    IN  IF rq4.pc = "agent" THEN agent_done(rq4, run.agent) ELSE rq4

RunPipeline(r, run) ==
    /\ req[r].pc = "get_ticker"
    /\ Settle(r, run_pipeline(req[r], run))
    /\ UNCHANGED <<now, advances, lock>>

\* time passes
Advance(d) ==
    /\ advances < MaxAdvances
    /\ now' = now + d
    /\ advances' = advances + 1
    /\ g' = [g EXCEPT !.attempts = [c \in Clients |->
                SelectSeq(g.attempts[c], LAMBDA t : now' < t + COUNTER_TTL)]]
    /\ ev' = NoEvent
    /\ heap' = Collect(heap, cache, ev')
    /\ UNCHANGED <<cache, counter, lock, req>>

----------------------------------------------------------------------------
(* The endpoint under concurrent requests *)

AllOk ==
    [price |-> Return(Some(SamplePrice)),
     company_name |-> Return(Some("Apple Inc.")),
     technicals |-> Return(Some(SampleTechnicals)),
     fundamentals |-> Return(Some(SampleFundamentals)),
     news |-> Return(Some(SampleHeadlines))]

GoodRun ==
    [get_ticker |-> Return(None), info |-> Return(None), tasks |-> AllOk,
     sentiment |-> "return", agent |-> Return(SampleAgentResult)]

EndpointRuns ==
    {GoodRun,
     [GoodRun EXCEPT !.get_ticker = Raise("Exception")],
     [GoodRun EXCEPT !.tasks.price = Raise("ValueError")],
     [GoodRun EXCEPT !.tasks.price = Return(None)],
     [GoodRun EXCEPT !.tasks.price = Raise("Exception")],
     [GoodRun EXCEPT !.agent = Raise("LLMRateLimitError")],
     [GoodRun EXCEPT !.tasks.fundamentals = Raise("ValueError"),
                     !.sentiment = "raise", !.agent = Raise("Exception")]}

Next ==
    \/ \E r \in Reqs, raw \in EndpointTickers :
          analyze_stock(r, "10.0.0.1", raw, DefaultFlags)
    \/ \E r \in Reqs, run \in EndpointRuns : RunPipeline(r, run)
    \/ \E d \in Delays : Advance(d)

Spec == Init /\ [][Next]_vars

----------------------------------------------------------------------------
(* The rate limiter: a client asking for one ticker, around the minute *)

LimitRuns ==
    {GoodRun,
     [GoodRun EXCEPT !.tasks.price = Raise("ValueError")],
     [GoodRun EXCEPT !.get_ticker = Raise("Exception")]}

NextLimit ==
    \/ \E r \in Reqs : analyze_stock(r, "10.0.0.1", <<"a">>, DefaultFlags)
    \/ \E r \in Reqs, run \in LimitRuns : RunPipeline(r, run)
    \/ \E d \in LimitDelays : Advance(d)

SpecLimit == Init /\ [][NextLimit]_vars

----------------------------------------------------------------------------
(* check_uncached_rate_limit called from several threads at once, statement *)
(* by statement, inside one minute                                          *)

\* a thread enters the function (lines 39-41) and waits for the lock
LimiterCall(r, ip) ==
    /\ req[r].pc = "idle"
    /\ CounterValue(counter, ip, now) < MaxCount
    /\ req' = [req EXCEPT ![r] = [IdleReq EXCEPT !.pc = "lock", !.ip = ip]]
    /\ ev' = NoEvent
    /\ UNCHANGED <<now, advances, cache, counter, lock, heap, g>>

\* a lock that is never taken
CanAcquireAlways(lk) == TRUE

\* line 42: with _counter_lock -- the lock is free
CanAcquire(lk) == lk = 0

\* lines 42-43: take the lock and read the counter
LimiterRead(r) ==
    /\ req[r].pc = "lock"
    /\ CanAcquire(lock)
    /\ lock' = r
    /\ LET count == NextCount(counter, req[r].ip, now)
       IN  /\ req' = [req EXCEPT ![r].pc = "store", ![r].count = count]
           /\ g' = [g EXCEPT !.seen[req[r].ip] = @ \cup {count},
                             !.dup = @ \/ count \in g.seen[req[r].ip]]
    /\ ev' = NoEvent
    /\ UNCHANGED <<now, advances, cache, counter, heap>>

\* line 44 and the end of the with block: write the counter, release the lock
LimiterStore(r) ==
    /\ req[r].pc = "store"
    /\ counter' = StoreCount(counter, req[r].ip, req[r].count, now)
    /\ lock' = 0
    /\ req' = [req EXCEPT ![r].pc = "compare"]
    /\ ev' = NoEvent
    /\ UNCHANGED <<now, advances, cache, heap, g>>

\* lines 45-49: compare, then raise 429 or return
LimiterCompare(r) ==
    /\ req[r].pc = "compare"
    /\ req' = [req EXCEPT ![r] = IdleReq]
    /\ IF LimitExceeded(req[r].count)
       THEN /\ ev' = Response(Finished(req[r], 429, "rate limit", 0), "arrival")
            /\ g' = g
       ELSE /\ ev' = Admitted(req[r])
            /\ g' = [g EXCEPT !.passed[req[r].ip] = @ + 1]
    /\ UNCHANGED <<now, advances, cache, counter, lock, heap>>

NextThreads ==
    \/ \E r \in Reqs, ip \in Clients : LimiterCall(r, ip)
    \/ \E r \in Reqs : LimiterRead(r)
    \/ \E r \in Reqs : LimiterStore(r)
    \/ \E r \in Reqs : LimiterCompare(r)

SpecThreads == Init /\ [][NextThreads]_vars

----------------------------------------------------------------------------
(* services/cache.py called directly, as tests/test_cache.py does *)

\* two spellings of one ticker
SameLetter(x, y) == x = y \/ {x, y} \in {{"a", "A"}, {"z", "Z"}}

SameTicker(s, t) ==
    Len(s) = Len(t) /\ \A i \in 1..Len(s) : SameLetter(s[i], t[i])

\* what is held for a ticker: results stored under one of its spellings less
\* than the TTL ago
HeldFor(gg, ticker, t) ==
    {h \in gg.held : SameTicker(h.raw, ticker) /\ t < h.at + CACHE_TTL_SECONDS}

Results == {1, 2}

CallSet(ticker, result) ==
    /\ cache' = set_cached(cache, ticker, result, now)
    /\ g' = [g EXCEPT !.held = {h \in @ : ~SameTicker(h.raw, ticker)}
                                  \cup {[raw |-> ticker, value |-> result, at |-> now]}]
    /\ ev' = [kind |-> "set", phase |-> "", rq |-> [IdleReq EXCEPT !.raw = ticker]]
    /\ UNCHANGED <<now, advances, counter, lock, heap, req>>

CallGet(ticker) ==
    LET got == get_cached(cache, ticker, now)
    IN  /\ cache' = cache_after_get(cache, ticker, now)
        /\ ev' = [kind |-> "get", phase |-> "",
                  rq |-> [IdleReq EXCEPT !.raw = ticker, !.hit = ~IsNone(got),
                                         !.resp = IF IsNone(got) THEN 0 ELSE Val(got)]]
        /\ UNCHANGED <<now, advances, counter, lock, heap, req, g>>

CallClear ==
    /\ cache' = clear_cache(cache)
    /\ g' = [g EXCEPT !.held = {}]
    /\ ev' = [kind |-> "clear", phase |-> "", rq |-> IdleReq]
    /\ UNCHANGED <<now, advances, counter, lock, heap, req>>

NextCache ==
    \/ \E ticker \in RawTickers, result \in Results : CallSet(ticker, result)
    \/ \E ticker \in RawTickers : CallGet(ticker)
    \/ CallClear
    \/ \E d \in Delays : Advance(d)

SpecCache == Init /\ [][NextCache]_vars

----------------------------------------------------------------------------
(* analyze() task by task: one request at a time, every combination of the *)
(* inclusion flags, every way each collaborator can end                     *)

TaskValues ==
    [price |-> SamplePrice, company_name |-> "Apple Inc.",
     technicals |-> SampleTechnicals, fundamentals |-> SampleFundamentals,
     news |-> SampleHeadlines]

\* a task returns its value or None, or raises; the news fetch may also
\* return an empty list
TaskOutcomes(k) ==
    {Return(Some(TaskValues[k])), Return(None), Raise("ValueError"), Raise("Exception")}
        \cup (IF k = "news" THEN {Return(Some(<<>>))} ELSE {})

\* the thread of a task ends
TaskDone(r, k, o) ==
    /\ req[r].pc = "gather"
    /\ req[r].tasks[k].st = "running"
    /\ req' = [req EXCEPT ![r].tasks[k] = [st |-> "finished", out |-> o]]
    /\ ev' = NoEvent
    /\ UNCHANGED <<now, advances, cache, counter, lock, heap, g>>

\* line 124: the task the coordinator waits for has ended
AwaitTask(r) ==
    /\ req[r].pc = "gather"
    /\ req[r].next_await <= Len(TaskKeys)
    /\ req[r].tasks[TaskKeys[req[r].next_await]].st = "finished"
    /\ Settle(r, await_step(req[r]))
    /\ UNCHANGED <<now, advances, lock>>

\* another answer of the agent
OtherAgentResult ==
    [signal |-> "SELL", confidence |-> 1000, explanation |-> "Weak outlook."]

\* run_agent returns one of two answers or raises
AgentOutcomes ==
    {Return(SampleAgentResult), Return(OtherAgentResult),
     Raise("LLMRateLimitError"), Raise("Exception")}

\* the priming read of stock.info returns, or the provider's client raises: a
\* response that is not JSON surfaces as a ValueError, a network failure as
\* another exception
InfoOutcomes == {Return(None), Raise("ValueError"), Raise("Exception")}

NextPipeline ==
    \/ \E flags \in AllFlags : analyze_stock(1, "10.0.0.1", <<"a">>, flags)
    \/ \E o \in {Return(None), Raise("Exception")} : GetTickerDone(1, o)
    \/ \E o \in InfoOutcomes : InfoDone(1, o)
    \/ \E k \in DOMAIN NoTasks : \E o \in TaskOutcomes(k) : TaskDone(1, k, o)
    \/ AwaitTask(1)
    \/ \E kind \in {"return", "raise", "rate_limit"} :
          SentimentDone(1, SentimentOutcome(req[1].headlines, kind))
    \/ \E o \in AgentOutcomes : AgentDone(1, o)

SpecPipeline == Init /\ [][NextPipeline]_vars

----------------------------------------------------------------------------
(* The confidence fusion on its own: analyze() resumed at line 164 with any *)
(* combination of pillars                                                   *)

\* scores in units of 1/10000, some of them outside [0, 1]
ScoreInputs == {-5000, 0, 5500, 6000, 7000, 10000, 15000}

\* a pillar is missing, has no score, or has one of the scores
PillarInputs(field) ==
    {None, Some([x \in {field} |-> None])}
        \cup {Some([x \in {field} |-> Some(v)]) : v \in ScoreInputs}

SentimentInputs ==
    {None, Some([overall |-> "mixed", score |-> None])}
        \cup {Some([overall |-> "mixed", score |-> Some(v)]) : v \in ScoreInputs}

AtFuse(technical, fundamentals, sentiment) ==
    [IdleReq EXCEPT !.pc = "assemble", !.ip = "10.0.0.1", !.raw = <<"a">>,
                    !.ticker = <<"A">>, !.next_await = Len(TaskKeys) + 1,
                    !.results = [NoResults EXCEPT !.price = Some(SamplePrice),
                                                  !.technicals = technical,
                                                  !.fundamentals = fundamentals],
                    !.sentiment = sentiment,
                    !.agent_result = Some(SampleAgentResult), !.agent_calls = 1]

InitFuse ==
    /\ now = 0
    /\ advances = 0
    /\ cache = <<>>
    /\ counter = <<>>
    /\ lock = 0
    /\ heap = EmptyHeap
    /\ \E technical \in PillarInputs("technical_score"),
          fundamentals \in PillarInputs("fundamental_score"),
          sentiment \in SentimentInputs :
          req = [r \in Reqs |-> IF r = 1 THEN AtFuse(technical, fundamentals, sentiment)
                                ELSE IdleReq]
    /\ ev = NoEvent
    /\ g = InitGhost

\* lines 163-192 for the request at the fuse step
Fuse(r) ==
    /\ req[r].pc = "assemble"
    /\ AssembleAndCache(r, req[r])
    /\ UNCHANGED <<now, advances, lock>>

NextFuse == \E r \in Reqs : Fuse(r)

SpecFuse == InitFuse /\ [][NextFuse]_vars

----------------------------------------------------------------------------
(* The indicator and scoring engines inside analyze(): the technicals and  *)
(* fundamentals tasks compute their pillars from what the provider hands   *)
(* them                                                                    *)

\* rows of a history: none, and one on each side of the length every
\* indicator needs
SeriesLengths == {0, 14, 15, 20, 21, 34, 35, 49, 50, 199, 200}

\* an RSI below 30, between 30 and 70, above 70
RsiInputs == {0, 4321, 10000}

\* a last volume under half, about, and over one and a half times the mean
RatioInputs == {None, Some(40), Some(100), Some(160)}

SeriesInputs ==
    [n : SeriesLengths, rsi : RsiInputs, macd : {-1, 0, 1},
     above50 : BOOLEAN, above200 : BOOLEAN, ratio : RatioInputs]

\* calculate_technicals as a task: get_price_history raises on an empty
\* history
technicals_task(history) ==
    IF history.n = 0 THEN Raise("ValueError")
    ELSE Return(Some(calculate_technicals(history)))

\* what stock.info may hold for each scored key, in thousandths (debtToEquity
\* in percent): a value for each branch of its scoring rule
InfoValues ==
    [trailingPE |-> <<10000, 18000, 40000>>,
     pegRatio |-> <<500, 1200, 3000>>,
     profitMargins |-> <<250, 110, 10>>,
     returnOnEquity |-> <<200, 120, 10>>,
     revenueGrowth |-> <<200, 90, -100>>,
     earningsGrowth |-> <<300, 80, -100>>,
     debtToEquity |-> <<20000, 80000, 300000>>,
     currentRatio |-> <<2000, 1200, 500>>,
     freeCashflow |-> <<1000, -1000>>]

ScoredKeys == DOMAIN InfoValues

\* stock.info with the scored keys of `populated` set as `choice` says
Info(populated, choice, forward, cap) ==
    [k \in InfoKeys |->
        IF k \in populated THEN Some(InfoValues[k][choice[k]])
        ELSE IF k = "forwardPE" THEN forward
        ELSE IF k = "marketCap" THEN cap
        ELSE None]

Choices(populated) ==
    {c \in [populated -> 1..3] : \A k \in populated : c[k] <= Len(InfoValues[k])}

\* every key populated with its first, second or third value
UniformInfo(j) ==
    Info(ScoredKeys, [k \in ScoredKeys |-> Min(j, Len(InfoValues[k]))], None, Some(1))

\* stock.info: empty, without a market capitalisation, with at most m scored
\* keys populated, or with all of them
InfosUpTo(m) ==
    {None, Some(Info({}, <<>>, Some(20000), None))}
        \cup {Some(UniformInfo(j)) : j \in 1..3}
        \cup UNION {{Some(Info(populated, c, forward, Some(1))) :
                        c \in Choices(populated), forward \in {None, Some(20000)}} :
                    populated \in {q \in SUBSET ScoredKeys : Cardinality(q) <= m}}

InfoInputs == InfosUpTo(MaxPopulated)

InfoSample == InfosUpTo(SamplePopulated)

\* calculate_fundamentals as a task: get_fundamental_metrics raises when
\* stock.info is empty or has no market capitalisation
fundamentals_task(info) ==
    IF IsNone(info) \/ IsNone(Val(info).marketCap) THEN Raise("ValueError")
    ELSE Return(Some(calculate_fundamentals(Val(info))))

\* the ways the two tasks can end on the provider's data
TechnicalsOutcomes == {technicals_task(history) : history \in SeriesInputs}

FundamentalsOutcomes(infos) == {fundamentals_task(info) : info \in infos}

\* a run of the pipeline in which nothing fails but what the provider's data
\* makes fail
EngineRun(technicals, fundamentals, sentiment) ==
    [GoodRun EXCEPT !.tasks.technicals = technicals,
                    !.tasks.fundamentals = fundamentals,
                    !.sentiment = sentiment]

NextEngines ==
    \/ \E flags \in AllFlags : analyze_stock(1, "10.0.0.1", <<"a">>, flags)
    \/ /\ req[1].pc = "get_ticker"
       /\ \E technicals \in TechnicalsOutcomes,
             fundamentals \in FundamentalsOutcomes(InfoSample),
             sentiment \in {"return", "raise"} :
             RunPipeline(1, EngineRun(technicals, fundamentals, sentiment))

SpecEngines == Init /\ [][NextEngines]_vars

\* only the technical pillar is asked for
NextTechnical ==
    \/ analyze_stock(1, "10.0.0.1", <<"a">>,
                     [technicals |-> TRUE, fundamentals |-> FALSE, news |-> FALSE])
    \/ /\ req[1].pc = "get_ticker"
       /\ \E technicals \in TechnicalsOutcomes :
             RunPipeline(1, EngineRun(technicals, Raise("ValueError"), "return"))

SpecTechnical == Init /\ [][NextTechnical]_vars

\* only the fundamental pillar is asked for
NextFundamentals ==
    \/ analyze_stock(1, "10.0.0.1", <<"a">>,
                     [technicals |-> FALSE, fundamentals |-> TRUE, news |-> FALSE])
    \/ /\ req[1].pc = "get_ticker"
       /\ \E fundamentals \in FundamentalsOutcomes(InfoInputs) :
             RunPipeline(1, EngineRun(Raise("ValueError"), fundamentals, "return"))

SpecFundamentals == Init /\ [][NextFundamentals]_vars

----------------------------------------------------------------------------
(* Properties of the rate limiter *)

\* the last step was an arrival that reached the limiter
LimiterVerdict == ev.phase = "arrival" /\ ~ev.rq.hit

RejectedByLimiter ==
    ev.kind = "response" /\ ev.rq.status = 429 /\ ev.rq.detail = "rate limit"

\* C1: of the uncached attempts one client makes within a minute of the first,
\* none of them refunded, the first five are admitted and the sixth and every
\* later one is rejected with 429
C1_FiveAdmittedSixthRejected ==
    (LimiterVerdict /\ ev.rq.ordinal > 0) =>
        /\ ev.rq.ordinal <= UNCACHED_LIMIT_PER_MIN => ev.kind = "admitted"
        /\ ev.rq.ordinal > UNCACHED_LIMIT_PER_MIN => RejectedByLimiter

\* C1 witness: a sixth attempt in the minute is turned away
C1_Witness ==
    LimiterVerdict /\ ev.rq.ordinal = UNCACHED_LIMIT_PER_MIN + 1 /\ RejectedByLimiter

\* C2: a NotFound request gives its slot back: a client's counter reads its
\* attempts less its NotFound requests since it was last quiet for a minute,
\* and the limiter rejects only when more than five attempts that were not
\* refunded are counted
C2_NotFoundRefunded ==
    /\ \A ip \in Clients : CounterValue(counter, ip, now) = NetValue(g, ip, now)
    /\ LimiterVerdict =>
          (RejectedByLimiter <=> NetValue(g, ev.rq.ip, now) > UNCACHED_LIMIT_PER_MIN)

\* C2 witness: a NotFound request of the client was refunded within the last
\* minute, and the attempt that brings its counter to five is admitted
C2_Witness ==
    /\ ev.kind = "admitted" /\ ev.rq.count = UNCACHED_LIMIT_PER_MIN
    /\ ~g.win[ev.rq.ip].clean
    /\ Len(g.attempts[ev.rq.ip]) = UNCACHED_LIMIT_PER_MIN

\* C3: however the calls of one client interleave within a minute, no two of
\* them read the same counter value and at most five of them are admitted
C3_AtomicIncrement ==
    /\ ~g.dup
    /\ \A ip \in Clients : g.passed[ip] <= UNCACHED_LIMIT_PER_MIN

\* C3 witness: two calls of one client are past the lock at the same time,
\* having read five and six, after four calls were admitted
C3_Witness ==
    \E r1, r2 \in Reqs :
        /\ req[r1].pc = "compare" /\ req[r2].pc = "compare"
        /\ req[r1].ip = req[r2].ip
        /\ req[r1].count = UNCACHED_LIMIT_PER_MIN
        /\ req[r2].count = UNCACHED_LIMIT_PER_MIN + 1
        /\ g.passed[req[r1].ip] = UNCACHED_LIMIT_PER_MIN - 1

\* C4: a request for a ticker with an unexpired cache entry is answered from
\* the cache with 200, and the step leaves the client's counter as it was
C4_CachedNotCounted ==
    [][(ev'.phase = "arrival" /\ ev'.rq.fresh) =>
          /\ ev'.kind = "response" /\ ev'.rq.hit /\ ev'.rq.status = 200
          /\ counter' = counter]_vars

\* C4 witness: a client whose counter stands at the limit is answered from
\* the cache
C4_Witness ==
    /\ ev.kind = "response" /\ ev.rq.hit /\ ev.rq.status = 200
    /\ CounterValue(counter, ev.rq.ip, now) >= UNCACHED_LIMIT_PER_MIN

\* C5: a client's counter equals the number of its uncached attempts, not
\* counting refunded ones, made in the preceding 60 seconds
C5_RollingWindow ==
    \A ip \in Clients : CounterValue(counter, ip, now) = Len(g.attempts[ip])

----------------------------------------------------------------------------
(* Properties of the cache *)

\* C6: get_cached(t') returns the result last stored under a spelling of t'
\* less than the TTL ago and not cleared since, and nothing when there is none
C6_CaseInsensitiveKeys ==
    ev.kind = "get" =>
        /\ ev.rq.hit <=> HeldFor(g, ev.rq.raw, now) # {}
        /\ ev.rq.hit => \A h \in HeldFor(g, ev.rq.raw, now) : ev.rq.resp = h.value

\* C6 witness: a result is retrieved under another spelling than the one it
\* was stored under
C6_Witness ==
    /\ ev.kind = "get" /\ ev.rq.hit
    /\ \E h \in HeldFor(g, ev.rq.raw, now) : h.raw # ev.rq.raw /\ h.value = ev.rq.resp

\* the fields of a response object other than its metadata
Content(h, id) == [Val(h.objs[id]) EXCEPT !.metadata = 0]

MetadataOf(h, id) == Val(h.objs[id]).metadata

\* C7: every entry of the cache carries cached = false; a 200 response
\* carries cached = true exactly when it was served from the cache, and then
\* it is another object than the entry, with its own metadata and the same
\* content
C7_CachedFlag ==
    /\ \A i \in 1..Len(cache) : ~CachedFlag(heap, cache[i].value)
    /\ (ev.kind = "response" /\ ev.rq.status = 200) =>
          /\ CachedFlag(heap, ev.rq.resp) <=> ev.rq.hit
          /\ ev.phase = "pipeline" => ~ev.rq.hit
          /\ ev.rq.hit =>
                /\ \A i \in 1..Len(cache) :
                      /\ cache[i].value # ev.rq.resp
                      /\ MetadataOf(heap, cache[i].value) # MetadataOf(heap, ev.rq.resp)
                /\ \E i \in 1..Len(cache) :
                      /\ cache[i].key = Upper(ev.rq.raw)
                      /\ Content(heap, cache[i].value) = Content(heap, ev.rq.resp)

\* C7 witness: a response served from the cache carries the flag while the
\* entry it was copied from does not
C7_Witness ==
    /\ ev.kind = "response" /\ ev.rq.hit /\ CachedFlag(heap, ev.rq.resp)
    /\ \E i \in 1..Len(cache) :
          cache[i].key = Upper(ev.rq.raw) /\ ~CachedFlag(heap, cache[i].value)

\* C8: an arriving request is answered from the cache if and only if an
\* analysis of its ticker was stored less than the TTL ago and not evicted
\* since; a request answered from the cache does not invoke the agent, one
\* answered by the pipeline invokes it once
C8_ServedIffFresh ==
    /\ ev.phase = "arrival" => (ev.rq.hit <=> ev.rq.fresh)
    /\ (ev.kind = "response" /\ ev.rq.status = 200) =>
          ev.rq.agent_calls = IF ev.rq.hit THEN 0 ELSE 1

\* C8 witness: a request arriving after the entry's TTL has elapsed is not
\* answered from the cache
C8_Witness ==
    /\ ev.kind = "admitted" /\ ~ev.rq.hit
    /\ ~IsNone(g.store[ev.rq.ticker])
    /\ now = Val(g.store[ev.rq.ticker]) + CACHE_TTL_SECONDS

----------------------------------------------------------------------------
(* Properties of the pipeline *)

\* the price task of the request of the last step ended without a result
NoPrice(e) ==
    /\ e.kind = "response" /\ e.phase = "pipeline"
    /\ e.rq.tasks.price.st = "finished"
    /\ e.rq.next_await > 1
    /\ (e.rq.tasks.price.out.kind = "raise" \/ IsNone(e.rq.tasks.price.out.value))

\* C9: when the price task raised or returned nothing, the request ends in
\* the NotFound error (404), the agent was not invoked for it, and the step
\* leaves the cache as it was
C9_NoPriceNotFound ==
    [][NoPrice(ev') =>
          /\ ev'.rq.status = 404 /\ ev'.rq.detail = "ValueError"
          /\ ev'.rq.agent_calls = 0
          /\ cache' = cache]_vars

\* C9 witness: a request whose price task returned nothing ends in 404 while
\* the cache holds an entry
C9_Witness ==
    /\ NoPrice(ev) /\ ev.rq.tasks.price.out.kind = "return"
    /\ ev.rq.status = 404 /\ Len(cache) > 0

\* what a task contributes: the value it returned, nothing when it raised or
\* was not started
Contribution(rq, k) ==
    IF rq.tasks[k].st = "finished" /\ rq.tasks[k].out.kind = "return"
    THEN rq.tasks[k].out.value ELSE None

Unlabelled(sources) ==
    [i \in 1..Len(sources) |-> [sources[i] EXCEPT !.sentiment = None]]

\* C10: when the price task returned a price, no failure of another task
\* fails the request (it ends in 200, or in 429 when the agent is rate
\* limited), and each item of a 200 response is what its own task returned,
\* absent exactly when that task failed, returned nothing or was not started;
\* the sources are the headlines the news task returned, up to their labels
C10_OnlyFailedItemAbsent ==
    (/\ ev.kind = "response" /\ ev.phase = "pipeline"
     /\ ~IsNone(Contribution(ev.rq, "price"))) =>
        /\ \/ ev.rq.status = 200
           \/ ev.rq.status = 429 /\ ev.rq.detail = "LLMRateLimitError"
        /\ ev.rq.status = 200 =>
              LET resp == Val(heap.objs[ev.rq.resp])
                  news == Contribution(ev.rq, "news")
              IN  /\ resp.price_data = Contribution(ev.rq, "price")
                  /\ resp.company_name = Contribution(ev.rq, "company_name")
                  /\ resp.technical = Contribution(ev.rq, "technicals")
                  /\ resp.fundamentals = Contribution(ev.rq, "fundamentals")
                  /\ Unlabelled(resp.sources) = IF IsNone(news) THEN <<>> ELSE Val(news)

\* C10 witness: the fundamentals task raised ValueError and the company-name
\* task another exception, and the 200 response carries the technicals and
\* the headlines
C10_Witness ==
    /\ ev.kind = "response" /\ ev.phase = "pipeline" /\ ev.rq.status = 200
    /\ ev.rq.tasks.fundamentals.out = Raise("ValueError")
    /\ ev.rq.tasks.company_name.out = Raise("Exception")
    /\ Val(heap.objs[ev.rq.resp]).technical = Some(SampleTechnicals)
    /\ IsNone(Val(heap.objs[ev.rq.resp]).fundamentals)
    /\ Len(Val(heap.objs[ev.rq.resp]).sources) = Len(SampleHeadlines)

----------------------------------------------------------------------------
(* Properties of error handling *)

\* the request of the last step ended in an error that left analyze()
Escaped(e) == e.kind = "response" /\ e.phase = "pipeline" /\ e.rq.status # 200

\* C11: an error that leaves analyze() is the NotFound error of a request
\* whose price task gave no result, or the rate-limit error of the agent
C11_OnlyTwoErrorsEscape ==
    Escaped(ev) =>
        \/ ev.rq.detail = "ValueError" /\ NoPrice(ev)
        \/ ev.rq.detail = "LLMRateLimitError" /\ ev.rq.agent_calls = 1

\* C12: when the agent raised its rate-limit error, the request ends in 429
\* with that error, the agent was invoked once and no result was substituted,
\* and the step leaves the cache as it was
C12_RateLimitPropagates ==
    [][(ev'.kind = "response" /\ ev'.rq.agent_error = "LLMRateLimitError") =>
          /\ ev'.rq.status = 429 /\ ev'.rq.detail = "LLMRateLimitError"
          /\ ev'.rq.agent_calls = 1 /\ IsNone(ev'.rq.agent_result)
          /\ cache' = cache]_vars

\* C12 witness: a request ends in 429 after its single agent call was rate
\* limited, while the cache holds the entry of another request
C12_Witness ==
    /\ ev.kind = "response" /\ ev.rq.agent_error = "LLMRateLimitError"
    /\ ev.rq.status = 429 /\ ev.rq.agent_calls = 1
    /\ Len(cache) > 0

----------------------------------------------------------------------------
(* The table of the confidence fusion, written from its rows *)

Present(o) == ~IsNone(o)

\* the weights of the row for the pillars that are present, in hundredths
RowWeights(t, f, s) ==
    IF Present(f) /\ Present(s) THEN <<40, 40, 20>>
    ELSE IF Present(s) THEN <<70, 0, 30>>
    ELSE IF Present(f) THEN <<60, 40, 0>>
    ELSE <<100, 0, 0>>

ScoreOr0(o) == IF Present(o) THEN Val(o) ELSE 0

\* the nearest multiple of 100 to n, the even one of two equally near
NearestHundred(n) ==
    CHOOSE q \in 0..10001 :
        /\ 2 * (IF n > 100 * q THEN n - 100 * q ELSE 100 * q - n) <= 100
        /\ \A p \in 0..10001 :
              (p # q /\ 2 * (IF n > 100 * p THEN n - 100 * p ELSE 100 * p - n) <= 100)
                  => q % 2 = 0

\* scores t, f, s in units of 1/10000, absent as None: one half without a
\* technical score, else the weighted sum, clamped and rounded
RefConfidence(t, f, s) ==
    IF ~Present(t) THEN 5000
    ELSE LET w == RowWeights(t, f, s)
             sum == w[1] * Val(t) + w[2] * ScoreOr0(f) + w[3] * ScoreOr0(s)
             clamped == IF sum < 0 THEN 0 ELSE IF sum > 1000000 THEN 1000000 ELSE sum
         IN  NearestHundred(clamped)

\* the pillar scores a response carries
TechScore(resp) == ScoreOf(resp.technical, "technical_score")
FundScore(resp) == ScoreOf(resp.fundamentals, "fundamental_score")
SentScore(resp) == ScoreOf(resp.sentiment, "score")

\* C13: when the agent failed with another error than its rate-limit error,
\* the request ends in 200 with signal HOLD and the fixed explanation, the
\* confidence fused from the pillar scores, and the gathered price, company
\* name, pillars and headlines
C13_AgentFallback ==
    (ev.kind = "response" /\ ev.rq.agent_error \notin {"", "LLMRateLimitError"}) =>
        /\ ev.rq.status = 200
        /\ LET resp == Val(heap.objs[ev.rq.resp])
               news == Contribution(ev.rq, "news")
           IN  /\ resp.signal = "HOLD"
               /\ resp.explanation = "Signal analysis temporarily unavailable. Technical and fundamental data are shown below."
               /\ resp.confidence = RefConfidence(TechScore(resp), FundScore(resp), SentScore(resp))
               /\ resp.price_data = Contribution(ev.rq, "price")
               /\ resp.technical = Contribution(ev.rq, "technicals")
               /\ resp.fundamentals = Contribution(ev.rq, "fundamentals")
               /\ resp.sentiment = ev.rq.sentiment
               /\ Unlabelled(resp.sources) = IF IsNone(news) THEN <<>> ELSE Val(news)

\* C13 witness: the agent raised, and the 200 response says HOLD and carries
\* the three pillars, the fused confidence 0.63 and the headlines
C13_Witness ==
    /\ ev.kind = "response" /\ ev.rq.agent_error = "Exception" /\ ev.rq.status = 200
    /\ LET resp == Val(heap.objs[ev.rq.resp])
       IN  /\ resp.signal = "HOLD" /\ resp.confidence = 6300
           /\ Present(resp.technical) /\ Present(resp.fundamentals)
           /\ Present(resp.sentiment) /\ Len(resp.sources) = Len(SampleHeadlines)

\* C14: every response carries one of the four statuses: 404 exactly when
\* the price task gave no result, 429 exactly when the agent was rate limited
\* or the client's uncached limit was exceeded, 502 exactly when another
\* error left analyze(), and 200 otherwise
C14_StatusMapping ==
    ev.kind = "response" =>
        LET rateLimited == ev.rq.agent_error = "LLMRateLimitError" \/ RejectedByLimiter
            otherEscape == Escaped(ev) /\ ev.rq.detail \notin {"ValueError", "LLMRateLimitError"}
        IN  /\ ev.rq.status \in {200, 404, 429, 502}
            /\ ev.rq.status = 404 <=> NoPrice(ev)
            /\ ev.rq.status = 429 <=> rateLimited
            /\ ev.rq.status = 502 <=> otherEscape
            /\ ev.rq.status = 200 <=> ~(NoPrice(ev) \/ rateLimited \/ otherEscape)

\* the outcomes of the agent after which a response is assembled
Answering == {o \in AgentOutcomes : o.kind = "return" \/ o.error # "LLMRateLimitError"}

\* C15: the confidence of a pipeline response is the one any other outcome of
\* the agent would have led to, all else being equal: it does not depend on
\* the confidence, signal or explanation the agent proposed
C15_ConfidenceIgnoresAgent ==
    (ev.kind = "response" /\ ev.phase = "pipeline" /\ ev.rq.status = 200) =>
        \A o \in Answering :
            Assemble(agent_done(ev.rq, o)).confidence
                = Val(heap.objs[ev.rq.resp]).confidence

\* C15 witness: the agent proposed 0.85 and the response carries the fused
\* 0.63
C15_Witness ==
    /\ ev.kind = "response" /\ ev.phase = "pipeline" /\ ev.rq.status = 200
    /\ Val(ev.rq.agent_result).confidence = 8500
    /\ Val(heap.objs[ev.rq.resp]).confidence = 6300

\* C16: for every combination of present and absent pillar scores the fused
\* confidence is the table's: one half without a technical score, else the
\* clamped and rounded weighted sum with the weights of the row
C16_ConfidenceTable ==
    /\ \A r \in Reqs : req[r].pc = "assemble" =>
          compute_weighted_confidence(req[r].results.technicals,
                                      req[r].results.fundamentals, req[r].sentiment)
            = RefConfidence(ScoreOf(req[r].results.technicals, "technical_score"),
                            ScoreOf(req[r].results.fundamentals, "fundamental_score"),
                            ScoreOf(req[r].sentiment, "score"))
    /\ (ev.kind = "response" /\ ev.phase = "pipeline" /\ ev.rq.status = 200) =>
          LET resp == Val(heap.objs[ev.rq.resp])
          IN  resp.confidence = RefConfidence(TechScore(resp), FundScore(resp), SentScore(resp))

\* C16 witness: technical 0.70 and sentiment 0.55 without a fundamental
\* score fuse to 0.655
C16_Witness ==
    /\ ev.kind = "response" /\ ev.rq.status = 200
    /\ LET resp == Val(heap.objs[ev.rq.resp])
       IN  /\ TechScore(resp) = Some(7000) /\ ~Present(FundScore(resp))
           /\ SentScore(resp) = Some(5500) /\ resp.confidence = 6550

----------------------------------------------------------------------------
(* Properties of the scores *)

\* the fields of a metrics record that the scoring reads
ScoredFields ==
    {"pe_ratio", "peg_ratio", "profit_margin", "return_on_equity", "revenue_growth",
     "earnings_growth", "debt_to_equity", "current_ratio", "free_cash_flow"}

NothingScored(metrics) == \A f \in ScoredFields : IsNone(metrics[f])

\* C19: a metrics record with none of the scored fields populated is given
\* the score 0.5 and no insight
C19_NoDataNeutral ==
    (ev.kind = "response" /\ ev.rq.status = 200) =>
        LET fundamentals == Val(heap.objs[ev.rq.resp]).fundamentals
        IN  (Present(fundamentals) /\ NothingScored(Val(fundamentals))) =>
                /\ interpret_fundamentals(Val(fundamentals))
                      = [score |-> 5000, insights |-> <<>>]
                /\ Val(fundamentals).fundamental_score = Some(5000)
                /\ Val(fundamentals).insights = <<>>

\* C19 witness: a response whose fundamentals have a market capitalisation
\* and a forward P/E, no scored field, and the score 0.5
C19_Witness ==
    /\ ev.kind = "response" /\ ev.phase = "pipeline" /\ ev.rq.status = 200
    /\ LET fundamentals == Val(heap.objs[ev.rq.resp]).fundamentals
       IN  /\ Present(fundamentals) /\ NothingScored(Val(fundamentals))
           /\ Present(Val(fundamentals).forward_pe)
           /\ Present(Val(fundamentals).market_cap)
           /\ Val(fundamentals).fundamental_score = Some(5000)

\* the histories that give the technical pillar of a response
HistoriesOf(technical) ==
    {h \in SeriesInputs : h.n > 0 /\ calculate_technicals(h) = technical}

\* what the indicators contribute in units of 1/80000, one that the history
\* is too short for contributing `missing[i]`
ExpectedScore(h, missing) ==
    LET rsi == IF h.n < 15 THEN missing[1]
               ELSE IF h.rsi < 3000 THEN 20000
               ELSE IF h.rsi > 7000 THEN 0
               ELSE 20000 - 5 * (h.rsi - 3000)
        macd == IF h.n < 35 THEN missing[2]
                ELSE IF h.macd > 0 THEN 20000 ELSE IF h.macd = 0 THEN 10000 ELSE 0
        sma50 == IF h.n < 50 THEN missing[3] ELSE IF h.above50 THEN 16000 ELSE 0
        sma200 == IF h.n < 200 THEN missing[4] ELSE IF h.above200 THEN 16000 ELSE 0
        volume == IF h.n < 21 THEN missing[5]
                  ELSE IF Present(h.ratio) /\ Val(h.ratio) > 150 THEN 8000
                  ELSE IF Present(h.ratio) /\ Val(h.ratio) < 50 THEN 0
                  ELSE 4000
    IN  RoundRatio(rsi + macd + sma50 + sma200 + volume, 8)

\* C20 as stated: an indicator the history is too short for contributes 0
\* and its weight is not redistributed, so the score of a history too short
\* for all five is 0
C20_MissingContributesZero ==
    (ev.kind = "response" /\ ev.phase = "pipeline" /\ ev.rq.status = 200) =>
        LET technical == Val(heap.objs[ev.rq.resp]).technical
        IN  Present(technical) =>
                \A h \in HistoriesOf(Val(technical)) :
                    /\ TechScore(Val(heap.objs[ev.rq.resp]))
                          = Some(ExpectedScore(h, <<0, 0, 0, 0, 0>>))
                    /\ h.n < 15 => TechScore(Val(heap.objs[ev.rq.resp])) = Some(0)

\* C20 amended: a missing RSI, SMA50 or SMA200 contributes 0, a missing MACD
\* or volume trend is read as neutral and contributes half its weight, 0.125
\* and 0.05; no weight is redistributed, and the score of a history too
\* short for all five is 0.175
C20_MissingNeutralOrZero ==
    (ev.kind = "response" /\ ev.phase = "pipeline" /\ ev.rq.status = 200) =>
        LET technical == Val(heap.objs[ev.rq.resp]).technical
        IN  Present(technical) =>
                \A h \in HistoriesOf(Val(technical)) :
                    /\ TechScore(Val(heap.objs[ev.rq.resp]))
                          = Some(ExpectedScore(h, <<0, 10000, 0, 0, 4000>>))
                    /\ h.n < 15 => TechScore(Val(heap.objs[ev.rq.resp])) = Some(1750)

\* C20 witness: the response to a history of at most 14 rows has no RSI, no
\* comparison with an average, a neutral MACD and volume, and the score 0.175
C20_Witness ==
    /\ ev.kind = "response" /\ ev.phase = "pipeline" /\ ev.rq.status = 200
    /\ LET technical == Val(heap.objs[ev.rq.resp]).technical
       IN  /\ Present(technical)
           /\ \E h \in HistoriesOf(Val(technical)) : h.n < 15
           /\ IsNone(Val(technical).rsi) /\ IsNone(Val(technical).price_vs_sma50)
           /\ Val(technical).technical_score = Some(1750)

InUnitInterval(score) == IsNone(score) \/ (0 <= Val(score) /\ Val(score) <= 10000)

ScoresInRange(resp) ==
    /\ InUnitInterval(TechScore(resp))
    /\ InUnitInterval(FundScore(resp))
    /\ 0 <= resp.confidence /\ resp.confidence <= 10000

\* C17: in every response that is returned or held in the cache the
\* technical score, the fundamental score and the confidence, when present,
\* are between 0 and 1
C17_ScoresInUnitInterval ==
    /\ (ev.kind = "response" /\ ev.rq.status = 200) =>
          ScoresInRange(Val(heap.objs[ev.rq.resp]))
    /\ \A i \in 1..Len(cache) : ScoresInRange(Val(heap.objs[cache[i].value]))

\* C17 witness: a response served from the cache with the highest technical
\* score, the lowest fundamental score and a confidence in between
C17_Witness ==
    /\ ev.kind = "response" /\ ev.rq.status = 200 /\ ev.rq.hit
    /\ LET resp == Val(heap.objs[ev.rq.resp])
       IN  /\ TechScore(resp) = Some(10000) /\ FundScore(resp) = Some(0)
           /\ Present(SentScore(resp)) /\ resp.confidence = 5100

----------------------------------------------------------------------------
(* Properties of the inclusion flags *)

\* the request did not ask for the pillar: its task was not created and the
\* response has nothing for it
Excluded(rq, resp, k) ==
    /\ rq.tasks[k].st = "absent"
    /\ IF k = "technicals" THEN IsNone(resp.technical)
       ELSE IF k = "fundamentals" THEN IsNone(resp.fundamentals)
       ELSE /\ rq.sentiment_calls = 0
            /\ IsNone(resp.sentiment)
            /\ resp.sources = <<>>

\* C18: for each inclusion flag a request sets to false its fetch is not
\* invoked, for news the sentiment classification neither, and the result
\* returned to the request has the pillar absent, with no sources when news
\* is excluded
C18_ExcludedPillarsAbsent ==
    (ev.kind = "response" /\ ev.rq.status = 200) =>
        \A k \in {"technicals", "fundamentals", "news"} :
            ~ev.rq.flags[k] => Excluded(ev.rq, Val(heap.objs[ev.rq.resp]), k)

----------------------------------------------------------------------------
(* calculate_rsi on the closes themselves: a sequence of prices in whole    *)
(* units.  The two averages are kept as numerators over a common            *)
(* denominator, which their quotient does not depend on.                    *)

\* lines 13-15: deltas.clip(lower=0) for sign 1 and (-deltas).clip(lower=0)
\* for sign -1, at position i > 1
Clipped(prices, sign, i) == Max(sign * (prices[i] - prices[i - 1]), 0)

RECURSIVE SumClipped(_, _, _, _)
SumClipped(prices, sign, from, to) ==
    IF from > to THEN 0
    ELSE Clipped(prices, sign, from) + SumClipped(prices, sign, from + 1, to)

\* lines 26-28: avg = (avg * (period - 1) + new) / period for the positions
\* after the seed; `unit` is the denominator the average is kept over
RECURSIVE Smoothed(_, _, _, _, _, _)
Smoothed(prices, sign, period, avg, unit, i) ==
    IF i > Len(prices) THEN avg
    ELSE Smoothed(prices, sign, period,
                  avg * (period - 1) + Clipped(prices, sign, i) * unit,
                  unit * period, i + 1)

\* lines 18-34, after the guard: the seeds are means of the first `period`
\* changes (a slice past the end is cut short), so the averages start over
\* the number of changes in the seed
rsi_from(prices, period) ==
    LET last == Min(period + 1, Len(prices))
        seeded == Max(last - 1, 1)
        avg_gain == Smoothed(prices, 1, period,
                             SumClipped(prices, 1, 2, last), seeded, period + 2)
        avg_loss == Smoothed(prices, -1, period,
                             SumClipped(prices, -1, 2, last), seeded, period + 2)
    IN  IF avg_loss = 0 THEN 10000
        ELSE RoundRatio(10000 * avg_gain, avg_gain + avg_loss)

\* the guard taken for `len(prices) < period`
rsi_of_closes_short_guard(prices, period) ==
    IF Len(prices) < period THEN None ELSE Some(rsi_from(prices, period))

\* calculate_rsi(prices, period): the RSI in hundredths
rsi_of_closes(prices, period) ==
    IF Len(prices) < period + 1 THEN None ELSE Some(rsi_from(prices, period))

\* closes of n rows from 100 that move by d1 for the first k steps and by d2
\* after them
TwoSlopes(n, k, d1, d2) ==
    [i \in 1..n |-> 100 + d1 * Min(i - 1, k) + d2 * Max(i - 1 - k, 0)]

MaxShort == 4

\* every short series of low prices with every period, and long series of
\* two slopes with the period the package uses
ShortPrices == UNION {[1..n -> 1..MaxShort] : n \in 0..MaxShort}

LongPrices ==
    {TwoSlopes(n, k, d1, d2) :
        n \in {13, 14, 15, 16, 17}, k \in {0, 7, 16},
        d1 \in {-1, 0, 1, 3}, d2 \in {-1, 0, 1, 3}}

RsiCalls ==
    (ShortPrices \X {1, 2, 3, RSI_PERIOD}) \cup (LongPrices \X {RSI_PERIOD})

\* a function of the package called on its own, as its tests do
Called(name, args, result) ==
    [kind |-> name, phase |-> "", rq |-> IdleReq, args |-> args, result |-> result]

CallRsi(prices, period) ==
    /\ ev' = Called("calculate_rsi", [prices |-> prices, period |-> period],
                    rsi_of_closes(prices, period))
    /\ UNCHANGED <<now, advances, cache, counter, lock, heap, req, g>>

NextRsi == \E call \in RsiCalls : CallRsi(call[1], call[2])

SpecRsi == Init /\ [][NextRsi]_vars

StrictlyIncreasing(prices) ==
    \A i \in 1..Len(prices) : \A j \in 1..Len(prices) : i < j => prices[i] < prices[j]

\* C21: calculate_rsi returns None for a series of fewer than period + 1
\* points and exactly 100 for a strictly increasing series of at least
\* period + 1 points
C21_RsiShortAndRising ==
    ev.kind = "calculate_rsi" =>
        /\ Len(ev.args.prices) < ev.args.period + 1 => IsNone(ev.result)
        /\ (Len(ev.args.prices) >= ev.args.period + 1
              /\ StrictlyIncreasing(ev.args.prices)) => ev.result = Some(10000)

\* C21 witness: calculate_rsi has returned 100 for seventeen rising closes
\* with the period of 14, the rise changing its pace on the way
C21_Witness ==
    /\ ev.kind = "calculate_rsi" /\ ev.args.period = RSI_PERIOD
    /\ ev.args.prices = TwoSlopes(17, 7, 1, 3)
    /\ ev.result = Some(10000)

----------------------------------------------------------------------------
(* scripts/precache.py against a freshly started server: one client that   *)
(* posts the default tickers one after another and sleeps between them.    *)
(* Requests never overlap, so the server handles each as one step; `ev`    *)
(* holds the script's position and its tallies.                            *)

DEFAULT_TICKERS ==
    << <<"A", "A", "P", "L">>, <<"M", "S", "F", "T">>, <<"G", "O", "O", "G", "L">>,
       <<"N", "V", "D", "A">>, <<"T", "S", "L", "A">>, <<"V", "O", "O">>,
       <<"S", "P", "Y">>, <<"Q", "Q", "Q">>, <<"A", "M", "D">>,
       <<"M", "E", "T", "A">> >>

DEFAULT_DELAY == 2

\* seconds an analysis of a valid ticker may take
PipelineSeconds == {1, 58}

\* POST /signal for a valid ticker whose collaborators all succeed, from its
\* arrival at time t to its response `seconds` later.  The responses'
\* contents play no part in the script's run: every entry holds 0.
precache_request(c, cnt, ip, ticker, t, seconds) ==
    LET cached == RouteCacheLookup(c, ticker, t)
        count == NextCount(cnt, ip, t)
        cnt1 == StoreCount(cnt, ip, count, t)
    IN  IF ~IsNone(cached)
        THEN [status |-> 200, cached |-> TRUE, took |-> 0,
              cache |-> cache_after_get(c, ticker, t), counter |-> cnt]
        ELSE IF LimitExceeded(count)
        THEN [status |-> 429, cached |-> FALSE, took |-> 0,
              cache |-> c, counter |-> cnt1]
        ELSE [status |-> 200, cached |-> FALSE, took |-> seconds,
              cache |-> set_cached(cache_after_get(c, ticker, t), ticker,
                                   0, t + seconds),
              counter |-> cnt1]

PrecacheStart == [i |-> 0, passed |-> 0, failed |-> 0, status |-> 0]

\* where the script is: before its loop until it has posted something
Script == IF ev.kind = "precache" THEN ev.result ELSE PrecacheStart

ScriptPhase == IF ev.kind = "precache" THEN ev.phase ELSE "slept"

\* lines 79-91: analyze_ticker for the next ticker and the tally
PrecacheAnalyze(seconds) ==
    /\ ScriptPhase = "slept"
    /\ Script.i < Len(DEFAULT_TICKERS)
    /\ LET i == Script.i + 1
           ticker == Upper(DEFAULT_TICKERS[i])
           answer == precache_request(cache, counter, "10.0.0.1", ticker, now, seconds)
       IN  /\ cache' = answer.cache
           /\ counter' = answer.counter
           /\ now' = now + answer.took
           /\ ev' = [kind |-> "precache", phase |-> "answered", rq |-> IdleReq,
                     args |-> [ticker |-> ticker, cached |-> answer.cached],
                     result |-> [i |-> i, status |-> answer.status,
                                 passed |-> Script.passed
                                            + (IF answer.status = 200 THEN 1 ELSE 0),
                                 failed |-> Script.failed
                                            + (IF answer.status = 200 THEN 0 ELSE 1)]]
    /\ UNCHANGED <<advances, lock, heap, req, g>>

\* lines 93-94: time.sleep(args.delay) except after the last ticker
PrecacheSleep ==
    /\ ScriptPhase = "answered"
    /\ Script.i < Len(DEFAULT_TICKERS)
    /\ now' = now + DEFAULT_DELAY
    /\ ev' = [ev EXCEPT !.phase = "slept"]
    /\ UNCHANGED <<advances, cache, counter, lock, heap, req, g>>

NextPrecache ==
    \/ \E seconds \in PipelineSeconds : PrecacheAnalyze(seconds)
    \/ PrecacheSleep

SpecPrecache == Init /\ [][NextPrecache]_vars

\* C22: in a run of the pre-cache script with its defaults against a fresh
\* server no request is rejected by the uncached rate limiter, and when the
\* script has posted its last ticker every listed ticker is cached
C22_PrecacheWarmsAll ==
    ev.kind = "precache" =>
        /\ ev.result.status # 429
        /\ ev.result.i = Len(DEFAULT_TICKERS) =>
              /\ ev.result.failed = 0
              /\ \A i \in 1..Len(DEFAULT_TICKERS) :
                    ~IsNone(get_cached(cache, DEFAULT_TICKERS[i], now))

----------------------------------------------------------------------------
(* Properties of the sentiment step *)

\* the request the last step answered, or the one in flight
Current == IF ev.kind = "response" THEN ev.rq ELSE req[1]

\* C23: analyze_sentiment is called at most once in a run of the pipeline,
\* and only once the coordinator has awaited every task and the news task
\* returned a non-empty list; when it raised (its rate-limit error included)
\* the agent is called all the same, the request ends as the agent alone
\* decides, and a 200 response has no sentiment and carries the headlines as
\* they were fetched
C23_SentimentOnceAndOptional ==
    LET rq == Current
    IN  /\ rq.sentiment_calls <= 1
        /\ rq.sentiment_calls = 1 =>
              /\ rq.tasks.news.st = "finished"
              /\ rq.next_await > Len(TaskKeys)
              /\ rq.tasks.news.out.kind = "return"
              /\ Truthy(rq.tasks.news.out.value)
        /\ rq.sentiment_error # "" =>
              /\ rq.sentiment_calls = 1 /\ rq.agent_calls = 1
              /\ IsNone(rq.sentiment)
              /\ rq.headlines = rq.tasks.news.out.value
        /\ (ev.kind = "response" /\ rq.sentiment_error # "") =>
              IF rq.agent_error = "LLMRateLimitError" THEN rq.status = 429
              ELSE /\ rq.status = 200
                   /\ IsNone(Val(heap.objs[rq.resp]).sentiment)
                   /\ Val(heap.objs[rq.resp]).sources = Val(rq.tasks.news.out.value)

\* C23 witness: the classifier raised its rate-limit error, and the request
\* ended in 200 without sentiment and with the two fetched headlines
C23_Witness ==
    /\ ev.kind = "response" /\ ev.rq.status = 200
    /\ ev.rq.sentiment_error = "LLMRateLimitError" /\ ev.rq.sentiment_calls = 1
    /\ IsNone(Val(heap.objs[ev.rq.resp]).sentiment)
    /\ Val(heap.objs[ev.rq.resp]).sources = SampleHeadlines

----------------------------------------------------------------------------
(* Properties of the fan-out *)

TaskNames == DOMAIN NoTasks

\* C24: in a run of the pipeline get_ticker returns at most once and the
\* priming read of stock.info completes at most once; a task exists only when
\* both have completed exactly once, and while the handle is being made or
\* the priming read is in progress no task of the request exists
C24_PrimedBeforeFanOut ==
    LET rq == Current
    IN  /\ rq.handles <= 1 /\ rq.primes <= 1
        /\ (\E k \in TaskNames : rq.tasks[k].st # "absent") =>
              rq.handles = 1 /\ rq.primes = 1
        /\ req[1].pc \in {"get_ticker", "info"} =>
              /\ \A k \in TaskNames : req[1].tasks[k].st = "absent"
              /\ req[1].primes = 0
              /\ req[1].handles = (IF req[1].pc = "info" THEN 1 ELSE 0)
        /\ req[1].pc \in {"gather", "sentiment", "agent"} =>
              req[1].handles = 1 /\ req[1].primes = 1

\* C24 witness: the technicals task is running beside finished siblings, the
\* handle made once and primed once
C24_Witness ==
    /\ req[1].pc = "gather"
    /\ req[1].tasks.technicals.st = "running"
    /\ req[1].tasks.price.st = "finished"
    /\ req[1].handles = 1 /\ req[1].primes = 1

\* the tasks the coordinator has been through in its loop over tasks.items()
Awaited(rq) == {TaskKeys[i] : i \in 1..Min(rq.next_await - 1, Len(TaskKeys))}

\* C25: while the coordinator waits, every requested task and no other has
\* been started, and the tasks it has been through have finished; once it
\* has left the loop (to NotFound, to the classifier or to the agent) every
\* started task has finished: none is running, whatever its siblings did
C25_ForkJoin ==
    LET rq == Current
        started == {k \in TaskNames : rq.tasks[k].st # "absent"}
    IN  rq.primes = 1 =>
            /\ started = Started(rq.flags)
            /\ \A k \in Awaited(rq) \cap started : rq.tasks[k].st = "finished"
            /\ rq.pc # "gather" =>
                  /\ rq.next_await > Len(TaskKeys)
                  /\ \A k \in started : rq.tasks[k].st = "finished"

\* C25 witness: the price task raised, every sibling was started and has
\* finished, and the request ended in NotFound
C25_Witness ==
    /\ ev.kind = "response" /\ ev.rq.status = 404 /\ ev.rq.primes = 1
    /\ ev.rq.tasks.price.out.kind = "raise"
    /\ \A k \in TaskNames : ev.rq.tasks[k].st = "finished"
    /\ ev.rq.tasks.fundamentals.out = Return(Some(SampleFundamentals))

----------------------------------------------------------------------------
(* Properties of overlapping requests *)

\* the live entries the cache holds under a key
EntriesOf(c, key, t) == {i \in 1..Len(c) : c[i].key = key /\ t < c[i].expires}

\* request r, in flight, has overlapped another request for its ticker: one
\* is in flight beside it, or one has stored the ticker since r was admitted
\* (r was admitted on a miss, and only a finished analysis fills the cache)
Overlapped(r) ==
    /\ req[r].pc = "get_ticker"
    /\ \/ \E q \in Reqs \ {r} :
             req[q].pc = "get_ticker" /\ req[q].ticker = req[r].ticker
       \/ EntriesOf(cache, req[r].ticker, now) # {}

\* C26: overlapping requests for one uncached ticker are not coalesced: each
\* of them that ends in 200 was answered by its own run of the pipeline with
\* one call of the agent, its response says cached = false, and after it the
\* cache holds exactly one entry for the ticker, the response just returned
C26_NoCoalescing ==
    [][\A r \in Reqs :
          (Overlapped(r) /\ req'[r].pc = "idle" /\ ev'.rq.status = 200) =>
              /\ ev'.kind = "response" /\ ev'.phase = "pipeline"
              /\ ~ev'.rq.hit /\ ev'.rq.agent_calls = 1
              /\ ~CachedFlag(heap', ev'.rq.resp)
              /\ Cardinality(EntriesOf(cache', ev'.rq.ticker, now')) = 1
              /\ get_cached(cache', ev'.rq.ticker, now') = Some(ev'.rq.resp)]_vars

\* C26 witness: of two requests for the same unseen ticker admitted together,
\* one has been answered by the pipeline with cached = false and is the
\* cache's only entry, while the other is still in flight
C26_Witness ==
    /\ ev.kind = "response" /\ ev.phase = "pipeline" /\ ev.rq.status = 200
    /\ ev.rq.agent_calls = 1 /\ ~CachedFlag(heap, ev.rq.resp)
    /\ \E q \in Reqs : req[q].pc = "get_ticker" /\ req[q].ticker = ev.rq.ticker
    /\ Len(cache) = 1 /\ cache[1].value = ev.rq.resp

----------------------------------------------------------------------------
(* Properties of the fundamental score *)

\* the scored fields of each category, in the order of the categories
CategoryFields ==
    <<{"pe_ratio", "peg_ratio"}, {"profit_margin", "return_on_equity"},
      {"revenue_growth", "earnings_growth"},
      {"debt_to_equity", "current_ratio", "free_cash_flow"}>>

\* the record with no other scored field than f
Only(metrics, f) ==
    [k \in DOMAIN metrics |->
        IF k \in ScoredFields \ {f} THEN None ELSE metrics[k]]

\* what the metric f alone earns in its category i, out of 10000
MetricScore(metrics, i, f) == Categories(Only(metrics, f))[i].score

PresentIn(metrics, i) == {f \in CategoryFields[i] : Present(metrics[f])}

RECURSIVE SumMetricScores(_, _, _)
SumMetricScores(metrics, i, fields) ==
    IF fields = {} THEN 0
    ELSE LET f == CHOOSE x \in fields : TRUE
         IN  MetricScore(metrics, i, f) + SumMetricScores(metrics, i, fields \ {f})

\* 0.25 * (sum of the present metrics' scores / their number), in 1/240000
ExpectedShare(metrics, i) ==
    LET present == PresentIn(metrics, i)
    IN  IF present = {} THEN 0
        ELSE SumMetricScores(metrics, i, present) * (6 \div Cardinality(present))

ExpectedFundamental(metrics) ==
    RoundRatio(ExpectedShare(metrics, 1) + ExpectedShare(metrics, 2)
                 + ExpectedShare(metrics, 3) + ExpectedShare(metrics, 4), 24)

\* C27: with a scored metric present, the fundamental score is the sum over
\* the categories with a present metric of 0.25 times the mean score of the
\* category's present metrics; a category without one adds nothing, so the
\* score is at most 0.25 for each category that has one
C27_FundamentalScoreFormula ==
    (ev.kind = "response" /\ ev.rq.status = 200) =>
        LET fundamentals == Val(heap.objs[ev.rq.resp]).fundamentals
        IN  (Present(fundamentals) /\ ~NothingScored(Val(fundamentals))) =>
                LET metrics == Val(fundamentals)
                    score == Val(metrics.fundamental_score)
                IN  /\ score = ExpectedFundamental(metrics)
                    /\ score <= 2500 * Cardinality({i \in 1..4 : PresentIn(metrics, i) # {}})

\* C27 witness: a low P/E is the only scored metric, and the score is 0.25
C27_Witness ==
    /\ ev.kind = "response" /\ ev.phase = "pipeline" /\ ev.rq.status = 200
    /\ LET fundamentals == Val(heap.objs[ev.rq.resp]).fundamentals
       IN  /\ Present(fundamentals)
           /\ \A f \in ScoredFields : Present(Val(fundamentals)[f]) <=> f = "pe_ratio"
           /\ Val(fundamentals).pe_ratio = Some(10000)
           /\ Val(fundamentals).fundamental_score = Some(2500)

----------------------------------------------------------------------------
(* Properties of cached fallback responses *)

IsFallback(h, id) ==
    /\ Val(h.objs[id]).signal = FallbackAgentResult.signal
    /\ Val(h.objs[id]).explanation = FallbackAgentResult.explanation

\* the cache holds, under the key and not yet expired, a fallback response
FallbackHeld(key) ==
    /\ ~IsNone(get_cached(cache, key, now))
    /\ IsFallback(heap, Val(get_cached(cache, key, now)))

\* C28: a response built from the HOLD fallback is stored under its ticker
\* like any other, and while the cache holds it unexpired every request for
\* the ticker is answered on arrival with that response and cached = true,
\* calls no agent, consumes no slot of the limiter and leaves the entry held
C28_FallbackIsCached ==
    [][/\ (ev'.kind = "response" /\ ev'.phase = "pipeline" /\ ev'.rq.status = 200
             /\ ev'.rq.agent_error = "Exception") =>
              /\ IsFallback(heap', ev'.rq.resp)
              /\ get_cached(cache', ev'.rq.ticker, now') = Some(ev'.rq.resp)
       /\ (ev'.phase = "arrival" /\ FallbackHeld(Upper(ev'.rq.raw))) =>
              LET held == Val(get_cached(cache, Upper(ev'.rq.raw), now))
              IN  /\ ev'.kind = "response" /\ ev'.rq.status = 200 /\ ev'.rq.hit
                  /\ ev'.rq.agent_calls = 0
                  /\ Content(heap', ev'.rq.resp) = Content(heap, held)
                  /\ CachedFlag(heap', ev'.rq.resp)
                  /\ counter' = counter
                  /\ get_cached(cache', Upper(ev'.rq.raw), now') = Some(held)]_vars

\* C28 witness: after the clock has moved, a request was answered from the
\* cache with the fallback's HOLD, cached = true and no call of the agent
C28_Witness ==
    /\ ev.kind = "response" /\ ev.phase = "arrival" /\ ev.rq.hit
    /\ advances > 0
    /\ IsFallback(heap, ev.rq.resp) /\ CachedFlag(heap, ev.rq.resp)
    /\ ev.rq.agent_calls = 0

----------------------------------------------------------------------------
(* Properties of the two cache checks of a request *)

\* C29: the route's cache check and the orchestrator's agree: a step that
\* answers a request with cached = true leaves the rate-limit counter and
\* the record of attempts as they were, and an arrival that changes the
\* counter is either rejected by the limiter or starts the pipeline
C29_CacheChecksAgree ==
    [][/\ (ev'.kind = "response" /\ ev'.rq.status = 200
             /\ CachedFlag(heap', ev'.rq.resp)) =>
              /\ ev'.phase = "arrival" /\ ev'.rq.hit
              /\ ev'.rq.count = 0
              /\ counter' = counter /\ g'.attempts = g.attempts
       /\ (ev'.phase = "arrival" /\ counter' # counter) =>
              \/ ev'.kind = "response" /\ ev'.rq.status = 429
                   /\ LimitExceeded(ev'.rq.count)
              \/ /\ ev'.kind = "admitted"
                 /\ \E r \in Reqs : req[r].pc = "idle" /\ req'[r].pc = "get_ticker"]_vars

\* C29 witness: a request is answered from the cache while another one for
\* the same symbol is in flight, and the client's counter stands at the two
\* admitted requests
C29_Witness ==
    /\ ev.kind = "response" /\ ev.phase = "arrival" /\ ev.rq.hit
    /\ CachedFlag(heap, ev.rq.resp)
    /\ req[2].pc = "get_ticker" /\ req[2].ticker = Upper(ev.rq.raw)
    /\ CounterValue(counter, "10.0.0.1", now) = 2

----------------------------------------------------------------------------
(* Termination of analyze(): one request at a time, every combination of   *)
(* the inclusion flags, each collaborator returning or raising, under the  *)
(* assumption that every collaborator call ends and that the event loop    *)
(* resumes a coordinator whose awaited task has finished                   *)

\* a task returns its value or raises
LiveTaskOutcomes(k) == {Return(Some(TaskValues[k])), Raise("ValueError")}

LiveAgentOutcomes ==
    {Return(SampleAgentResult), Raise("LLMRateLimitError"), Raise("Exception")}

TaskEnds(k) == \E o \in LiveTaskOutcomes(k) : TaskDone(1, k, o)

GetTickerEnds == \E o \in {Return(None), Raise("Exception")} : GetTickerDone(1, o)

InfoEnds == \E o \in {Return(None), Raise("ValueError")} : InfoDone(1, o)

SentimentEnds ==
    \E kind \in {"return", "raise"} :
        SentimentDone(1, SentimentOutcome(req[1].headlines, kind))

AgentEnds == \E o \in LiveAgentOutcomes : AgentDone(1, o)

NextLive ==
    \/ \E flags \in AllFlags : analyze_stock(1, "10.0.0.1", <<"a">>, flags)
    \/ GetTickerEnds
    \/ InfoEnds
    \/ \E k \in TaskNames : TaskEnds(k)
    \/ AwaitTask(1)
    \/ SentimentEnds
    \/ AgentEnds

SpecLive ==
    /\ Init /\ [][NextLive]_vars
    /\ WF_vars(GetTickerEnds) /\ WF_vars(InfoEnds)
    /\ \A k \in TaskNames : WF_vars(TaskEnds(k))
    /\ WF_vars(AwaitTask(1))
    /\ WF_vars(SentimentEnds) /\ WF_vars(AgentEnds)

\* the coordinator is at line 124, waiting for a task
Waiting == req[1].pc = "gather" /\ req[1].next_await <= Len(TaskKeys)

\* C30: a call of analyze() that has passed the cache check ends, in a
\* response or an error; and the task the coordinator waits for is always
\* one that was started
C30_AnalyzeTerminates ==
    /\ [](Waiting => req[1].tasks[TaskKeys[req[1].next_await]].st # "absent")
    /\ (req[1].pc # "idle") ~> (req[1].pc = "idle" /\ ev.kind = "response")

\* C30 witness: a call that waited for two tasks only, called the agent and
\* ended in a response
C30_Witness ==
    /\ ev.kind = "response" /\ ev.phase = "pipeline" /\ ev.rq.status = 200
    /\ ev.rq.flags = [technicals |-> FALSE, fundamentals |-> FALSE, news |-> FALSE]
    /\ ev.rq.next_await > Len(TaskKeys) /\ ev.rq.agent_calls = 1
    /\ \A k \in TaskNames : ev.rq.tasks[k].st = "finished" <=> k \in {"price", "company_name"}

====
